---- MODULE Spec2Model ----
(***************************************************************************)
(* RecordLib: the rule-evaluation engine.  A criminal record (CRecord) is  *)
(* threaded by an Analysis through rule functions; every rule returns the  *)
(* remaining record and a Decision.                                        *)
(*                                                                         *)
(* Encoding of Python values:                                              *)
(*   None (for dates, timedeltas)    the empty tuple <<>>                  *)
(*   datetime.date                   <<year, day-in-year>>                 *)
(*   None (for str fields)           the string "<None>"                   *)
(*   True / False / None as the value of a predicate Decision              *)
(*                                   the strings "True" "False" "None"     *)
(*   float("Inf"), float("-Inf")     Inf, NegInf                           *)
(***************************************************************************)
EXTENDS Integers, Sequences, FiniteSets, TLC

VARIABLES record, remaining_record, decisions, applied, given, raised, summarized

vars == <<record, remaining_record, decisions, applied, given, raised, summarized>>

(***************************************************************************)
(* Bounds of the model.                                                    *)
(***************************************************************************)
MaxRules == 2
MaxPartitionRules == 4
MaxCases == 2
MaxCharges == 2

(***************************************************************************)
(* Python values.                                                          *)
(***************************************************************************)
None == <<>>
NoneStr == "<None>"
Inf == 9999
NegInf == 0 - Inf

\* date.today(): the model's calendar has DaysPerYear days in a year.
DaysPerYear == 3
Today == <<2020, 2>>

\* date.min
DateMin == <<1, 1>>

\* a < b on dates
DateLT(a, b) == a[1] < b[1] \/ (a[1] = b[1] /\ a[2] < b[2])

\* max(a, b) on dates
DateMax(a, b) == IF DateLT(a, b) THEN b ELSE a

\* relativedelta(a, b).years: whole calendar years from b to a, truncated
\* toward zero (negative when a is before b).
WholeYears(a, b) == a[1] - b[1] - (IF a[2] < b[2] THEN 1 ELSE 0)

relativedelta_years(a, b) ==
    IF DateLT(a, b) THEN 0 - WholeYears(b, a) ELSE WholeYears(a, b)

\* date + timedelta, the timedelta counted in days of the model's calendar
DatePlus(d, n) ==
    LET ord == d[1] * DaysPerYear + (d[2] - 1) + n
    IN  <<ord \div DaysPerYear, (ord % DaysPerYear) + 1>>

\* str.strip() on the strings of the model
strip(s) ==
    CASE s = " " -> ""
      [] s = "S " -> "S"
      [] s = " Guilty" -> "Guilty"
      [] OTHER -> s

\* re.match("^Guilty", s)
MatchesGuilty(s) == s \in {"Guilty", "Guilty Plea"}

\* "Active" in status
ContainsActive(s) == s \in {"Active", "Active - Awaiting Trial"}

\* "onfine" in sentence_type
ContainsOnfine(s) == s \in {"Confinement"}

\* "TR" in docket_number
ContainsTR(s) == s \in {"MD-TR-1", "MD-TR-2", "MD-TR-3", "MD-TR-4"}

\* bool(value) of a Decision's value
Truthy(v) == v \notin {"False", "None", ""}

PyBool(b) == IF b THEN "True" ELSE "False"

\* all(decisions), any(decisions) over a list of Decisions
all(ds) == \A i \in 1..Len(ds) : Truthy(ds[i].value)
any(ds) == \E i \in 1..Len(ds) : Truthy(ds[i].value)

Decision(name, value, reasoning) ==
    [name |-> name, value |-> value, reasoning |-> reasoning]

(***************************************************************************)
(* Person                                                                  *)
(***************************************************************************)
age(person) ==
    IF person.date_of_birth = None THEN 0
    ELSE Today[1] - person.date_of_birth[1]
           - (IF Today[2] < person.date_of_birth[2] THEN 1 ELSE 0)

years_dead(person) ==
    IF person.date_of_death # None
    THEN relativedelta_years(Today, person.date_of_death)
    ELSE NegInf

(***************************************************************************)
(* Charge                                                                  *)
(***************************************************************************)
\* Charge.is_conviction
Charge_is_conviction(charge) ==
    IF charge.disposition = NoneStr THEN FALSE
    ELSE MatchesGuilty(strip(charge.disposition))

(***************************************************************************)
(* Case                                                                    *)
(***************************************************************************)
last_action(case) ==
    IF case.arrest_date # None /\ case.disposition_date # None
    THEN DateMax(case.arrest_date, case.disposition_date)
    ELSE IF case.arrest_date = None /\ case.disposition_date # None
    THEN case.disposition_date
    ELSE IF case.arrest_date # None /\ case.disposition_date = None
    THEN case.arrest_date
    ELSE DateMin

\* every sentence of every charge of the case, in order
RECURSIVE SentencesOf(_)
SentencesOf(charges) ==
    IF charges = <<>> THEN <<>>
    ELSE Head(charges).sentences \o SentencesOf(Tail(charges))

was_confined(case) ==
    LET ss == SentencesOf(case.charges)
    IN  \E i \in 1..Len(ss) : ContainsOnfine(ss[i].sentence_type)

\* s.sentence_date + s.sentence_length.max_time raises TypeError when either
\* is None
EndRaises(case) ==
    LET ss == SentencesOf(case.charges)
    IN  \E i \in 1..Len(ss) : ss[i].sentence_date = None \/ ss[i].max_time = None

end_of_confinement(case) ==
    IF ~was_confined(case) THEN None
    ELSE LET ss == SentencesOf(case.charges)
             ends == {DatePlus(ss[i].sentence_date, ss[i].max_time[1]) : i \in 1..Len(ss)}
         IN  CHOOSE d \in ends : \A e \in ends : ~DateLT(d, e)

partialcopy(case) == [case EXCEPT !.charges = <<>>]

(***************************************************************************)
(* CRecord                                                                 *)
(***************************************************************************)
CRecord(person, cases) == [person |-> person, cases |-> cases]

\* as below, with the last case of the list in place of the case that was
\* last in the order of last actions
years_since_last_arrested_or_prosecuted_unsorted(crecord) ==
    IF Len(crecord.cases) = 0 THEN Inf
    ELSE IF \E i \in 1..Len(crecord.cases) :
               /\ crecord.cases[i].status # NoneStr
               /\ ContainsActive(crecord.cases[i].status)
    THEN 0
    ELSE relativedelta_years(Today, last_action(crecord.cases[Len(crecord.cases)]))

years_since_last_arrested_or_prosecuted(crecord) ==
    IF Len(crecord.cases) = 0 THEN Inf
    ELSE IF \E i \in 1..Len(crecord.cases) :
               /\ crecord.cases[i].status # NoneStr
               /\ ContainsActive(crecord.cases[i].status)
    THEN 0
    ELSE LET acts == {last_action(crecord.cases[i]) : i \in 1..Len(crecord.cases)}
             last == CHOOSE d \in acts : \A e \in acts : ~DateLT(d, e)
         IN  relativedelta_years(Today, last)

\* TRUE when the call raises TypeError: end_of_confinement is evaluated
\* outside the try block
years_since_final_release_raises(crecord) ==
    \E i \in 1..Len(crecord.cases) :
        was_confined(crecord.cases[i]) /\ EndRaises(crecord.cases[i])

years_since_final_release(crecord) ==
    LET YearsSince(last) ==
            IF relativedelta_years(Today, last) > 0
            THEN relativedelta_years(Today, last) ELSE 0
        Latest(ends) ==
            IF ends = {} THEN Inf
            ELSE YearsSince(CHOOSE d \in ends : \A e \in ends : ~DateLT(d, e))
    IN  Latest({end_of_confinement(crecord.cases[i]) :
                   i \in {j \in 1..Len(crecord.cases) : was_confined(crecord.cases[j])}})

(***************************************************************************)
(* simple_expungement_rules: predicates returning a Decision               *)
(***************************************************************************)
is_over_age(person, age_limit) ==
    Decision(<<"Is over ", age_limit>>, PyBool(age(person) > age_limit), age(person))

\* the threshold of the comparison is the literal 10, not year_min
years_since_last_contact(crec, year_min) ==
    LET Answer(years) ==
            Decision(<<"Free of arrest or prosecution for years", year_min>>,
                     PyBool(years >= 10), years)
    IN  Answer(years_since_last_arrested_or_prosecuted(crec))

years_since_final_release_decision(crec, year_min) ==
    LET Answer(years) ==
            Decision(<<"At least years since final release", year_min>>,
                     PyBool(years > year_min), years)
    IN  Answer(years_since_final_release(crec))

\* arrest_free_for_n_years with >= for >
arrest_free_for_n_years_inclusive(crec, year_min) ==
    LET Answer(years) ==
            Decision("Has been arrest free and prosecution free for five years?",
                     PyBool(years >= year_min), years)
    IN  Answer(years_since_last_arrested_or_prosecuted(crec))

arrest_free_for_n_years(crec, year_min) ==
    LET Answer(years) ==
            Decision("Has been arrest free and prosecution free for five years?",
                     PyBool(years > year_min), years)
    IN  Answer(years_since_last_arrested_or_prosecuted(crec))

is_summary(charge) ==
    Decision(<<"Is this charge a summary?", charge.sequence>>,
             PyBool(strip(charge.grade) = "S"), strip(charge.grade))

is_unresolved(charge) ==
    IF charge.disposition = "" \/ charge.disposition = NoneStr
    THEN Decision(<<"Is charge still unresolved?", charge.sequence>>, "True",
                  "The charge has no disposition, so it appears to be unresolved.")
    ELSE Decision(<<"Is charge still unresolved?", charge.sequence>>, "False",
                  "The charge was resolved with the disposition.")

is_conviction(charge) ==
    IF charge.disposition = NoneStr \/ strip(charge.disposition) = ""
    THEN Decision(<<"Is charge a conviction?", charge.sequence>>, "None",
                  "The charge is missing a disposition.")
    ELSE Decision(<<"Is charge a conviction?", charge.sequence>>,
                  PyBool(Charge_is_conviction(charge)), charge.disposition)

is_conviction_or_unresolved(charge) ==
    LET Answer(reasoning) ==
            Decision(<<"Is charge either a conviction or still unresolved?", charge.sequence>>,
                     PyBool(any(reasoning)), reasoning)
    IN  Answer(<<is_unresolved(charge), is_conviction(charge)>>)

is_summary_conviction(charge) ==
    LET Answer(reasoning) ==
            Decision(<<"Is the charge a summary conviction?", charge.sequence>>,
                     PyBool(all(reasoning)), reasoning)
    IN  Answer(<<is_summary(charge), is_conviction(charge)>>)

(***************************************************************************)
(* Petitions and the result of a rule function                             *)
(***************************************************************************)
Expungement(cases, expungement_type) ==
    [petition |-> "Expungement", cases |-> cases, expungement_type |-> expungement_type]

Sealing(cases) ==
    [petition |-> "Sealing", cases |-> cases, expungement_type |-> ""]

\* a rule function returns (remaining record, Decision) or raises
Returns(remaining, decision) ==
    [raised |-> "", remaining |-> remaining, decision |-> decision]

Raises(exception) ==
    [raised |-> exception, remaining |-> None, decision |-> None]

\* [f(s[1]), ..., f(s[n])]
MapSeq(f(_), s) == [i \in 1..Len(s) |-> f(s[i])]

\* the elements of s that satisfy Test, in order
Filter(s, Test(_)) == SelectSeq(s, Test)

(***************************************************************************)
(* filter_rules                                                            *)
(***************************************************************************)
is_traffic_case(case) ==
    Decision(<<"Is a traffic case?", case.docket_number>>,
             PyBool(ContainsTR(case.docket_number)), "")

\* filter_traffic_cases that lists the traffic cases but leaves them in the
\* record
filter_traffic_cases_keeps_all(crecord) ==
    LET Traffic(case) == Truthy(is_traffic_case(case).value)
    IN  Returns(crecord,
                [type |-> "Filter",
                 name |-> "Traffic Court cases removed from consideration.",
                 value |-> Filter(crecord.cases, Traffic),
                 reasoning |-> MapSeq(is_traffic_case, crecord.cases)])

filter_traffic_cases(crecord) ==
    LET NotTraffic(case) == ~Truthy(is_traffic_case(case).value)
        Traffic(case) == Truthy(is_traffic_case(case).value)
    IN  Returns(CRecord(crecord.person, Filter(crecord.cases, NotTraffic)),
                [type |-> "Filter",
                 name |-> "Traffic Court cases removed from consideration.",
                 value |-> Filter(crecord.cases, Traffic),
                 reasoning |-> MapSeq(is_traffic_case, crecord.cases)])

(***************************************************************************)
(* petition_rules                                                          *)
(***************************************************************************)
FullExpungementOf(case) == Expungement(<<case>>, "FULL_EXPUNGEMENT")

\* expunge_over_70 that proposes the petitions but returns the record it was
\* given
expunge_over_70_keeps_record(crecord) ==
    LET Conclude(reasoning) ==
            Returns(crecord,
                    [type |-> "Petition",
                     name |-> "Expungements for a person over 70.",
                     value |-> IF all(reasoning)
                               THEN MapSeq(FullExpungementOf, crecord.cases) ELSE <<>>,
                     reasoning |-> reasoning])
    IN  IF years_since_final_release_raises(crecord) THEN Raises("TypeError")
        ELSE Conclude(<<is_over_age(crecord.person, 70),
                        years_since_last_contact(crecord, 10),
                        years_since_final_release_decision(crecord, 10)>>)

expunge_over_70(crecord) ==
    LET Conclude(reasoning) ==
            IF all(reasoning)
            THEN Returns(CRecord(crecord.person, <<>>),
                         [type |-> "Petition",
                          name |-> "Expungements for a person over 70.",
                          value |-> MapSeq(FullExpungementOf, crecord.cases),
                          reasoning |-> reasoning])
            ELSE Returns(crecord,
                         [type |-> "Petition",
                          name |-> "Expungements for a person over 70.",
                          value |-> <<>>,
                          reasoning |-> reasoning])
    IN  IF years_since_final_release_raises(crecord) THEN Raises("TypeError")
        ELSE Conclude(<<is_over_age(crecord.person, 70),
                        years_since_last_contact(crecord, 10),
                        years_since_final_release_decision(crecord, 10)>>)

expunge_deceased(crecord) ==
    LET reasoning == <<Decision("Has been deceased for 3 years?",
                                PyBool(years_dead(crecord.person) > 3),
                                years_dead(crecord.person))>>
        name == "Expungements for a deceased person, after three years afther their death."
    IN  IF all(reasoning)
        THEN Returns(CRecord(crecord.person, <<>>),
                     [type |-> "Petition", name |-> name,
                      value |-> MapSeq(FullExpungementOf, crecord.cases),
                      reasoning |-> reasoning])
        ELSE Returns(crecord,
                     [type |-> "Petition", name |-> name,
                      value |-> <<>>, reasoning |-> reasoning])

\* FULL whenever any charge was taken
ExpungementTypeFor_any_taken(taken, case) ==
    IF Len(taken.charges) > 0
    THEN "FULL_EXPUNGEMENT" ELSE "PARTIAL_EXPUNGEMENT"

\* FULL when every charge of the case was taken, PARTIAL otherwise
ExpungementTypeFor(taken, case) ==
    IF Len(taken.charges) = Len(case.charges)
    THEN "FULL_EXPUNGEMENT" ELSE "PARTIAL_EXPUNGEMENT"

\* the part of one case that expunge_summary_convictions treats, for a given
\* arrest_free Decision
SummaryCase(case, arrest_free) ==
    LET Qualifies(charge) ==
            Truthy(arrest_free.value) /\ all(is_summary_conviction(charge).reasoning)
        NotQualifies(charge) == ~Qualifies(charge)
        charge_d(charge) ==
            [is_summary_conviction(charge) EXCEPT !.value = PyBool(Qualifies(charge))]
        Split(expungeable_case, not_expungeable_case) ==
            [petitions |->
                IF Len(expungeable_case.charges) > 0
                THEN <<Expungement(<<expungeable_case>>,
                                   ExpungementTypeFor(expungeable_case, case))>>
                ELSE <<>>,
             remaining |->
                IF Len(not_expungeable_case.charges) > 0
                THEN <<not_expungeable_case>> ELSE <<>>,
             case_d |->
                Decision(<<"Is expungeable?", case.docket_number>>,
                         IF Len(not_expungeable_case.charges) > 0 THEN "False"
                         ELSE IF Len(expungeable_case.charges) > 0 THEN "True" ELSE "",
                         MapSeq(charge_d, case.charges))]
    IN  Split([partialcopy(case) EXCEPT !.charges = Filter(case.charges, Qualifies)],
              [partialcopy(case) EXCEPT !.charges = Filter(case.charges, NotQualifies)])

\* s[1] \o s[2] \o ... \o s[n]
RECURSIVE Flatten(_)
Flatten(s) == IF s = <<>> THEN <<>> ELSE Head(s) \o Flatten(Tail(s))

expunge_summary_convictions(crecord) ==
    LET Conclude(arrest_free, parts) ==
            Returns(CRecord(crecord.person,
                            Flatten([i \in 1..Len(parts) |-> parts[i].remaining])),
                    [type |-> "Petition",
                     name |-> "Expungements for summary convictions.",
                     value |-> Flatten([i \in 1..Len(parts) |-> parts[i].petitions]),
                     reasoning |-> <<arrest_free>>
                                     \o [i \in 1..Len(parts) |-> parts[i].case_d]])
        ForEachCase(arrest_free) ==
            Conclude(arrest_free,
                     [i \in 1..Len(crecord.cases) |-> SummaryCase(crecord.cases[i], arrest_free)])
    IN  ForEachCase(arrest_free_for_n_years(crecord, 5))

\* the part of one case that expunge_nonconvictions treats
NonconvictionCase(case) ==
    LET Expungeable(charge_d) == ~Truthy(charge_d.value) /\ charge_d.value # "None"
        Qualifies(charge) == Expungeable(is_conviction_or_unresolved(charge))
        NotQualifies(charge) == ~Qualifies(charge)
        Split(expungeable_case, unexpungeable_case) ==
            [petitions |->
                IF Len(expungeable_case.charges) > 0
                THEN <<Expungement(<<expungeable_case>>,
                                   ExpungementTypeFor(expungeable_case, case))>>
                ELSE <<>>,
             remaining |->
                IF Len(unexpungeable_case.charges) > 0
                THEN <<unexpungeable_case>> ELSE <<>>,
             case_d |->
                Decision(<<"Does have expungeable nonconvictions?", case.docket_number>>,
                         PyBool(Len(expungeable_case.charges) > 0),
                         MapSeq(is_conviction_or_unresolved, case.charges))]
    IN  Split([partialcopy(case) EXCEPT !.charges = Filter(case.charges, Qualifies)],
              [partialcopy(case) EXCEPT !.charges = Filter(case.charges, NotQualifies)])

expunge_nonconvictions(crecord) ==
    LET Conclude(parts) ==
            Returns(CRecord(crecord.person,
                            Flatten([i \in 1..Len(parts) |-> parts[i].remaining])),
                    [type |-> "Petition",
                     name |-> "Expungements of nonconvictions.",
                     value |-> Flatten([i \in 1..Len(parts) |-> parts[i].petitions]),
                     reasoning |-> [i \in 1..Len(parts) |-> parts[i].case_d]])
    IN  Conclude([i \in 1..Len(crecord.cases) |-> NonconvictionCase(crecord.cases[i])])

(***************************************************************************)
(* CRecord.years_between_convictions.  The loop variable of the first loop *)
(* is named `case`, so after the loop `case` is the last case of the       *)
(* record (the argument when the record has no cases).                     *)
(***************************************************************************)
HasConviction(case) ==
    \E i \in 1..Len(case.charges) : Charge_is_conviction(case.charges[i])

CaseAfterLoop(crecord, case) ==
    IF Len(crecord.cases) = 0 THEN case ELSE crecord.cases[Len(crecord.cases)]

start_date(crecord, case, charge) ==
    IF charge.disposition_date # None THEN charge.disposition_date
    ELSE CaseAfterLoop(crecord, case).disposition_date

\* comparing or subtracting a date and None raises TypeError
years_between_convictions_raises(crecord, case, charge) ==
    start_date(crecord, case, charge) = None

years_between_convictions(crecord, case, charge) ==
    LET convictions_only == Filter(crecord.cases, HasConviction)
        Years(start, subsequent) ==
            IF subsequent = {}
            THEN relativedelta_years(Today, start)
            ELSE relativedelta_years(
                     CHOOSE d \in subsequent : \A e \in subsequent : ~DateLT(e, d), start)
        From(start) ==
            Years(start,
                  IF DateLT(start, last_action(CaseAfterLoop(crecord, case)))
                  THEN {last_action(convictions_only[i]) : i \in 1..Len(convictions_only)}
                  ELSE {})
    IN  From(start_date(crecord, case, charge))

(***************************************************************************)
(* Case.fines_remaining                                                    *)
(***************************************************************************)
fines_remaining(case) ==
    IF case.total_fines # None /\ case.fines_paid # None
    THEN <<case.total_fines[1] - case.fines_paid[1]>>
    ELSE IF case.total_fines = <<0>> THEN <<0>> ELSE None

(***************************************************************************)
(* simple_sealing_rules: the predicates of the sealing rules               *)
(***************************************************************************)
FinesPaid(case) ==
    LET Paid(remaining) == remaining = None \/ remaining[1] <= 0
    IN  Paid(fines_remaining(case))

restitution_paid(case) ==
    Decision(<<"Fines and costs are all paid on the case", case.docket_number>>,
             PyBool(FinesPaid(case)), fines_remaining(case))

all_fines_and_costs_paid(crecord) ==
    Decision("Fines and costs are all paid on the whole record",
             PyBool(\A i \in 1..Len(crecord.cases) : FinesPaid(crecord.cases[i])), "")

is_misdemeanor_or_ungraded(charge) ==
    Decision(<<"Is the charge a misdemeanor or ungraded?", charge.sequence>>,
             PyBool(strip(charge.grade) \in {"", "M", "M1", "M2", "M3"}),
             strip(charge.grade))

\* statutes of the offense categories that exclude a charge from sealing
ExcludedStatutes(category) ==
    CASE category = "danger to person" -> {"18 s 2702"}
      [] category = "family" -> {"18 s 4304"}
      [] category = "firearms" -> {"18 s 6105"}
      [] category = "sexual" -> {"18 s 3121"}
      [] category = "corruption of minors" -> {"18 s 6301"}

OffenseCategories ==
    <<"danger to person", "family", "firearms", "sexual", "corruption of minors">>

no_offense_of(category, charge) ==
    Decision(<<"Is not an offense of category", category, charge.sequence>>,
             PyBool(charge.statute \notin ExcludedStatutes(category)), charge.statute)

\* years since the last conviction graded misdemeanor or felony
ConvictionActs(crecord) ==
    {last_action(crecord.cases[i]) :
        i \in {j \in 1..Len(crecord.cases) :
                 \E k \in 1..Len(crecord.cases[j].charges) :
                    /\ Charge_is_conviction(crecord.cases[j].charges[k])
                    /\ strip(crecord.cases[j].charges[k].grade) # "S"}}

ten_years_since_last_conviction(crecord) ==
    LET Answer(yrs) ==
            [type |-> "Wait",
             name |-> "Ten years since last conviction for a misdemeanor or felony",
             value |-> PyBool(yrs >= 10),
             reasoning |-> yrs,
             years_to_wait |-> IF yrs >= 10 THEN 0 ELSE 10 - yrs]
        Since(acts) ==
            Answer(IF acts = {} THEN Inf
                   ELSE relativedelta_years(
                            Today, CHOOSE d \in acts : \A e \in acts : ~DateLT(d, e)))
    IN  Since(ConvictionActs(crecord))

full_record_requirements_for_petition_sealing(crecord) ==
    LET Answer(reasoning) ==
            Decision("Full record requirements for petition sealing",
                     PyBool(all(reasoning)), reasoning)
    IN  Answer(<<ten_years_since_last_conviction(crecord),
                 all_fines_and_costs_paid(crecord)>>)

(***************************************************************************)
(* petition_rules.seal_convictions                                         *)
(***************************************************************************)
SealingChargeReasoning(case, charge) ==
    <<restitution_paid(case), is_misdemeanor_or_ungraded(charge)>>
    \o [i \in 1..Len(OffenseCategories) |-> no_offense_of(OffenseCategories[i], charge)]

SealingCase(case, full_record_decision) ==
    LET Sealable(charge) ==
            all(SealingChargeReasoning(case, charge)) /\ Truthy(full_record_decision.value)
        NotSealable(charge) == ~Sealable(charge)
        charge_decision(charge) ==
            Decision(<<"Sealing charge", charge.sequence>>,
                     IF Sealable(charge) THEN "Sealable" ELSE "Not sealable",
                     SealingChargeReasoning(case, charge))
        Split(charge_decisions, allSealable, anySealable) ==
            [petitions |->
                IF allSealable \/ anySealable
                THEN <<Sealing(<<[partialcopy(case) EXCEPT
                                     !.charges = Filter(case.charges, Sealable)]>>)>>
                ELSE <<>>,
             remaining |->
                IF allSealable THEN <<>>
                ELSE <<[partialcopy(case) EXCEPT
                           !.charges = Filter(case.charges, NotSealable)]>>,
             case_d |->
                Decision(<<"Sealing case", case.docket_number>>,
                         IF allSealable THEN "All charges sealable"
                         ELSE IF anySealable THEN "Some charges sealable"
                         ELSE "No charges sealable",
                         charge_decisions)]
        Decide(charge_decisions) ==
            Split(charge_decisions,
                  \A i \in 1..Len(charge_decisions) : charge_decisions[i].value = "Sealable",
                  \E i \in 1..Len(charge_decisions) : charge_decisions[i].value = "Sealable")
    IN  Decide(MapSeq(charge_decision, case.charges))

seal_convictions(crecord) ==
    LET Conclude(full_record_decision, parts) ==
            Returns(CRecord(crecord.person,
                            Flatten([i \in 1..Len(parts) |-> parts[i].remaining])),
                    [type |-> "Petition",
                     name |-> "Sealing some convictions under the Clean Slate reforms.",
                     value |-> Flatten([i \in 1..Len(parts) |-> parts[i].petitions]),
                     reasoning |-> <<full_record_decision>>
                                     \o [i \in 1..Len(parts) |-> parts[i].case_d]])
        ForEachCase(full_record_decision) ==
            Conclude(full_record_decision,
                     [i \in 1..Len(crecord.cases) |->
                         SealingCase(crecord.cases[i], full_record_decision)])
    IN  ForEachCase(full_record_requirements_for_petition_sealing(crecord))

(***************************************************************************)
(* autosealing_rules                                                       *)
(***************************************************************************)
ten_years_between_convictions(charge, case, crecord) ==
    LET Answer(years) ==
            Decision(<<"Ten years between convictions", charge.sequence>>,
                     PyBool(years >= 10), years)
    IN  Answer(years_between_convictions(crecord, case, charge))

charge_is_not_excluded_from_sealing(charge) ==
    Decision(<<"Charge is not excluded from sealing", charge.sequence>>,
             PyBool(\A i \in 1..Len(OffenseCategories) :
                        charge.statute \notin ExcludedStatutes(OffenseCategories[i])),
             charge.statute)

no_m1_or_higher_in_this_case(case) ==
    Decision(<<"No M1 or higher conviction in the case", case.docket_number>>,
             PyBool(~\E i \in 1..Len(case.charges) :
                        /\ Charge_is_conviction(case.charges[i])
                        /\ strip(case.charges[i].grade) \in {"M1", "F", "F3", "F2", "F1"}),
             "")

record_contains_no_convictions_excluded_from_sealing(crecord) ==
    Decision("Record contains no convictions excluded from sealing",
             PyBool(\A i \in 1..Len(crecord.cases) :
                      \A k \in 1..Len(crecord.cases[i].charges) :
                        Charge_is_conviction(crecord.cases[i].charges[k]) =>
                           strip(crecord.cases[i].charges[k].grade) \notin {"F1"}),
             "")

is_charge_autosealable(charge, case, crecord, no_outstanding_fines_costs, record_not_excluded) ==
    LET Answer(reasoning) ==
            Decision(<<"Is the charge auto-sealable?", charge.sequence, case.docket_number>>,
                     PyBool(all(reasoning)), reasoning)
    IN  Answer(<<Decision("Is this a conviction?", PyBool(Charge_is_conviction(charge)),
                          charge.disposition),
                 ten_years_between_convictions(charge, case, crecord),
                 no_outstanding_fines_costs,
                 charge_is_not_excluded_from_sealing(charge),
                 no_m1_or_higher_in_this_case(case),
                 record_not_excluded>>)

AutosealingCase(case, crecord) ==
    LET d(charge) ==
            is_charge_autosealable(charge, case, crecord,
                                   all_fines_and_costs_paid(crecord),
                                   record_contains_no_convictions_excluded_from_sealing(crecord))
        Sealable(charge) == Truthy(d(charge).value)
        NotSealable(charge) == ~Sealable(charge)
        Split(sealable_case, unsealable_case) ==
            [eligible |-> IF Len(sealable_case.charges) > 0 THEN <<sealable_case>> ELSE <<>>,
             ineligible |->
                IF Len(unsealable_case.charges) > 0 THEN <<unsealable_case>> ELSE <<>>,
             reasoning |-> <<case.docket_number, MapSeq(d, case.charges)>>]
    IN  Split([partialcopy(case) EXCEPT !.charges = Filter(case.charges, Sealable)],
              [partialcopy(case) EXCEPT !.charges = Filter(case.charges, NotSealable)])

\* autosealing_eligibility that takes the eligible charges out of the record
autosealing_eligibility_filters(crecord) ==
    LET Conclude(parts) ==
            Returns(CRecord(crecord.person,
                            Flatten([i \in 1..Len(parts) |-> parts[i].ineligible])),
                    [type |-> "Eligibility",
                     name |-> "Eligibility for Automated Sealing",
                     value |-> [eligible |->
                                    Flatten([i \in 1..Len(parts) |-> parts[i].eligible]),
                                ineligible |->
                                    Flatten([i \in 1..Len(parts) |-> parts[i].ineligible])],
                     reasoning |-> [i \in 1..Len(parts) |-> parts[i].reasoning]])
    IN  IF \E i \in 1..Len(crecord.cases) : \E k \in 1..Len(crecord.cases[i].charges) :
              years_between_convictions_raises(crecord, crecord.cases[i],
                                               crecord.cases[i].charges[k])
        THEN Raises("TypeError")
        ELSE Conclude([i \in 1..Len(crecord.cases) |->
                          AutosealingCase(crecord.cases[i], crecord)])

autosealing_eligibility(crecord) ==
    LET Conclude(parts) ==
            Returns(crecord,
                    [type |-> "Eligibility",
                     name |-> "Eligibility for Automated Sealing",
                     value |-> [eligible |->
                                    Flatten([i \in 1..Len(parts) |-> parts[i].eligible]),
                                ineligible |->
                                    Flatten([i \in 1..Len(parts) |-> parts[i].ineligible])],
                     reasoning |-> [i \in 1..Len(parts) |-> parts[i].reasoning]])
    IN  IF \E i \in 1..Len(crecord.cases) : \E k \in 1..Len(crecord.cases[i].charges) :
              years_between_convictions_raises(crecord, crecord.cases[i],
                                               crecord.cases[i].charges[k])
        THEN Raises("TypeError")
        ELSE Conclude([i \in 1..Len(crecord.cases) |->
                          AutosealingCase(crecord.cases[i], crecord)])

(***************************************************************************)
(* Analysis                                                                *)
(***************************************************************************)
RuleNames ==
    {"filter_traffic_cases", "expunge_over_70", "expunge_deceased",
     "expunge_nonconvictions", "expunge_summary_convictions",
     "seal_convictions", "autosealing_eligibility"}

PartitionRules ==
    {"expunge_nonconvictions", "expunge_summary_convictions", "seal_convictions"}

\* a rule function of the caller's own: it keeps the record and answers with
\* a Decision that summarize has no name for
unrecognized_rule(crecord) ==
    Returns(crecord, [type |-> "Petition", name |-> "Unrecognized", value |-> <<>>,
                      reasoning |-> <<>>])

\* ruledef(crecord)
Call(ruledef, crecord) ==
    CASE ruledef = "filter_traffic_cases" -> filter_traffic_cases(crecord)
      [] ruledef = "expunge_over_70" -> expunge_over_70(crecord)
      [] ruledef = "expunge_deceased" -> expunge_deceased(crecord)
      [] ruledef = "expunge_nonconvictions" -> expunge_nonconvictions(crecord)
      [] ruledef = "expunge_summary_convictions" -> expunge_summary_convictions(crecord)
      [] ruledef = "seal_convictions" -> seal_convictions(crecord)
      [] ruledef = "autosealing_eligibility" -> autosealing_eligibility(crecord)
      [] ruledef = "unrecognized_rule" -> unrecognized_rule(crecord)

\* copy.deepcopy(rec): a record with equal field values
deepcopy(rec) == rec

\* Analysis.__init__
Analysis(rec) ==
    /\ record = rec
    /\ remaining_record = deepcopy(rec)
    /\ decisions = <<>>
    /\ applied = <<>>
    /\ given = <<>>
    /\ raised = ""
    /\ summarized = None

\* Analysis.rule with the rule called on the original record instead of the
\* remaining record
rule_on_original_record(ruledef) ==
    /\ raised = ""
    /\ UNCHANGED summarized
    /\ \E res \in {Call(ruledef, record)} :
           IF res.raised # ""
           THEN /\ raised' = res.raised
                /\ UNCHANGED <<record, remaining_record, decisions, applied, given>>
           ELSE /\ remaining_record' = res.remaining
                /\ decisions' = Append(decisions, res.decision)
                /\ applied' = Append(applied, ruledef)
                /\ given' = Append(given, remaining_record)
                /\ UNCHANGED <<record, raised>>

\* Analysis.rule with the Decision put at the front of the list
rule_prepends_decision(ruledef) ==
    /\ raised = ""
    /\ UNCHANGED summarized
    /\ \E res \in {Call(ruledef, remaining_record)} :
           IF res.raised # ""
           THEN /\ raised' = res.raised
                /\ UNCHANGED <<record, remaining_record, decisions, applied, given>>
           ELSE /\ remaining_record' = res.remaining
                /\ decisions' = <<res.decision>> \o decisions
                /\ applied' = Append(applied, ruledef)
                /\ given' = Append(given, remaining_record)
                /\ UNCHANGED <<record, raised>>

\* Analysis.rule with the remainder stored in self.record
rule_overwrites_record(ruledef) ==
    /\ raised = ""
    /\ UNCHANGED summarized
    /\ \E res \in {Call(ruledef, remaining_record)} :
           IF res.raised # ""
           THEN /\ raised' = res.raised
                /\ UNCHANGED <<record, remaining_record, decisions, applied, given>>
           ELSE /\ remaining_record' = res.remaining
                /\ record' = res.remaining
                /\ decisions' = Append(decisions, res.decision)
                /\ applied' = Append(applied, ruledef)
                /\ given' = Append(given, remaining_record)
                /\ UNCHANGED raised

\* Analysis.rule; `applied` and `given` record the rules called so far and
\* the record each was called with.  An exception of the rule leaves the
\* Analysis as it was and ends the chain of calls.
rule(ruledef) ==
    /\ raised = ""
    /\ UNCHANGED summarized
    /\ \E res \in {Call(ruledef, remaining_record)} :
           IF res.raised # ""
           THEN /\ raised' = res.raised
                /\ UNCHANGED <<record, remaining_record, decisions, applied, given>>
           ELSE /\ remaining_record' = res.remaining
                /\ decisions' = Append(decisions, res.decision)
                /\ applied' = Append(applied, ruledef)
                /\ given' = Append(given, remaining_record)
                /\ UNCHANGED <<record, raised>>

(***************************************************************************)
(* analysis.summarize.  A summary is the dict of the code, with the cases  *)
(* keyed by docket number and the charges of a case by sequence; a         *)
(* next_steps text is the list of the texts appended to it ("" is <<>>).   *)
(* counted_cases and counted_charges list what each increment of           *)
(* clearable_cases and clearable_charges was made for.  `raised` is the    *)
(* exception that ended the call, "" while there is none.                  *)
(***************************************************************************)
TrafficStep ==
    "Our system does not review traffic court cases. You can speak with a lawyer about your options for expunging traffic cases. "
PetitionStep == "Case likely expungeable by petition. "
NonconvictionStep == "Nonconviction likely expungeable by petition. "
SummaryStep == "Charge likely can be expunged. "
SummaryNotYetStep ==
    "Charge likely cannot be expunged yet. There must be five (5) years since the last arrest for prosecution. "
\* arrest_free.reasoning, the text of arrest_free_for_n_years without the
\* number of years
ArrestFreeReasoning ==
    "It appears to have been ... since the last arrest or prosecection."
SealingCaseStep == "Case likely sealable by petition. "
SealingChargeStep == "Charge is likely sealable by petition. "
FinesStep ==
    "Fines remaining on this case must be resolved before the charge can be sealed."
FinesAndWaitStep ==
    "Fines remaining on this case must be resolved before the charge can be sealed. In addition, it looks like you must wait before eligibility."
AutosealStep == "This charge may be automatically sealed."
AutosealFinesStep ==
    "This charge may be eligible for automatic sealing once all fines are paid."
AutosealLaterStep == "This charge may become sealable."
NoChargesStep ==
    "The software was not able to find any charges in this case. This case may be a civil case unrelated to criminal charges. Or this case may be related to another (such as through a transfer), in which case sealing or expunging the other case may seal or expunge this one as well."
PardonStep == "You may need a pardon before this can be expunged or sealed. "
MissingDisposition ==
    "We could not find the disposition. We are assuming this wasn't a conviction, but could be wrong. A lawyer would be able to help figure this out."

\* the names that summarize knows
KnownNames ==
    {"Traffic Court cases removed from consideration.",
     "Expungements for a person over 70.",
     "Expungements for a deceased person, after three years afther their death.",
     "Expungements of nonconvictions.",
     "Expungements for summary convictions.",
     "Sealing some convictions under the Clean Slate reforms.",
     "Eligibility for Automated Sealing"}

\* Op(...Op(Op(acc, s[1]), s[2])..., s[n]): a for loop over s
FoldLeft(Op(_, _), acc, s) ==
    LET f[i \in 0..Len(s)] == IF i = 0 THEN acc ELSE Op(f[i - 1], s[i])
    IN  f[Len(s)]

\* str(sequence) matches \w+(?:,\w+)?
IsWord(s) == s \in {"1", "2", "3", "4", "None"}

\* str(sequence) matches [0-9,]+
IsDigits(s) == s \in {"1", "2", "3", "4"}

\* pattern.search(name).group(1), NoneStr when the pattern does not match.
\* The name of a Decision about a case or a charge is the text of its
\* question followed by the docket number or sequence put into it.
re_search(pattern, name) ==
    CASE pattern = "Is the charge (?P<sequence>\\w+(?:,\\w+)?) for .*" ->
            \* "Is the charge {sequence} for {offense} a summary conviction?"
            \* matches; "Is the charge for '{offense}' in {docket_number}
            \* auto-sealable?" has no sequence and does not
            IF name[1] = "Is the charge a summary conviction?" /\ IsWord(name[2])
            THEN name[2] ELSE NoneStr
      [] pattern = "Is charge (?P<sequence>\\w+(?:,\\w+)?), for .*" ->
            IF name[1] \in {"Is charge either a conviction or still unresolved?",
                            "Is charge a conviction?", "Is charge still unresolved?"}
               /\ IsWord(name[2])
            THEN name[2] ELSE NoneStr
      [] pattern = "Does (?P<docket_number>.+) have expungeable nonconvictions\\?" ->
            IF name[1] = "Does have expungeable nonconvictions?"
            THEN name[2] ELSE NoneStr
      [] pattern = "Is (?P<docket_number>.+) expungeable\\?" ->
            IF name[1] = "Is expungeable?" THEN name[2] ELSE NoneStr
      [] pattern = "Sealing case (?P<docket_number>.*)" ->
            IF name[1] = "Sealing case" THEN name[2] ELSE NoneStr
      [] pattern = "Sealing charge (?P<sequence>[0-9,]+), .*" ->
            IF name[1] = "Sealing charge" /\ IsDigits(name[2])
            THEN name[2] ELSE NoneStr

\* the exception of summary, or of the step that follows
Raise(summary, exception) ==
    IF summary.raised # "" THEN summary ELSE [summary EXCEPT !.raised = exception]

\* set_next_step; charge_sequence NoneStr for None.  A missing key raises
\* KeyError.
set_next_step(summary, docket_number, charge_sequence, next_step) ==
    IF summary.raised # "" THEN summary
    ELSE IF docket_number \notin DOMAIN summary.cases THEN Raise(summary, "KeyError")
    ELSE IF charge_sequence = NoneStr
    THEN [summary EXCEPT !.cases[docket_number].next_steps = Append(@, next_step)]
    ELSE IF charge_sequence \notin DOMAIN summary.cases[docket_number].charges
    THEN Raise(summary, "KeyError")
    ELSE [summary EXCEPT
             !.cases[docket_number].charges[charge_sequence].next_steps =
                 Append(@, next_step)]

\* summary["clearable_cases"] += 1, for the case docket_number
count_case(summary, docket_number) ==
    IF summary.raised # "" THEN summary
    ELSE [summary EXCEPT !.clearable_cases = @ + 1,
                         !.counted_cases = Append(@, docket_number)]

\* summary["clearable_charges"] += 1, for the charge of the case
count_charge(summary, docket_number, sequence) ==
    IF summary.raised # "" THEN summary
    ELSE [summary EXCEPT !.clearable_charges = @ + 1,
                         !.counted_charges = Append(@, <<docket_number, sequence>>)]

update_summary_for_traffic_cases(summary, decision) ==
    FoldLeft(LAMBDA s, case : set_next_step(s, case.docket_number, NoneStr, TrafficStep),
             summary, decision.value)

\* decision.get_cases() iterates over each Petition of the value; the first
\* case it yields is then asked for `docker_number`.  A Petition that is not
\* iterable raises TypeError.
update_summary_for_over_70_expungements(summary, decision, iterable) ==
    IF decision.value = <<>> THEN summary
    ELSE Raise(summary, IF iterable THEN "AttributeError" ELSE "TypeError")

\* the case itself is given to set_next_step as the docket number
update_summary_for_deceased_expungements(summary, decision, iterable) ==
    IF decision.value = <<>> THEN summary
    ELSE Raise(summary, IF iterable THEN "KeyError" ELSE "TypeError")

update_summary_for_nonconviction_expungements(summary, decision) ==
    LET charge_patt == "Is charge (?P<sequence>\\w+(?:,\\w+)?), for .*"
        dkt_patt == "Does (?P<docket_number>.+) have expungeable nonconvictions\\?"
        ForCharge(dkt_number, s, charge_reason) ==
            IF Truthy(charge_reason.value) THEN s
            ELSE IF re_search(charge_patt, charge_reason.name) = NoneStr
            THEN Raise(s, "AttributeError")
            ELSE count_charge(
                     set_next_step(s, dkt_number,
                                   re_search(charge_patt, charge_reason.name),
                                   NonconvictionStep),
                     dkt_number, re_search(charge_patt, charge_reason.name))
        Close(dkt_number, case_is_clearable, s) ==
            IF case_is_clearable THEN count_case(s, dkt_number) ELSE s
        ForCase(s, case_reason) ==
            IF re_search(dkt_patt, case_reason.name) = NoneStr THEN s
            ELSE Close(re_search(dkt_patt, case_reason.name),
                       \E i \in 1..Len(case_reason.reasoning) :
                           ~Truthy(case_reason.reasoning[i].value),
                       FoldLeft(LAMBDA t, charge_reason :
                                    ForCharge(re_search(dkt_patt, case_reason.name),
                                              t, charge_reason),
                                s, case_reason.reasoning))
    IN  FoldLeft(ForCase, summary, decision.reasoning)

update_summary_for_summary_convictions(summary, decision) ==
    LET case_pattern == "Is (?P<docket_number>.+) expungeable\\?"
        charge_pattern == "Is the charge (?P<sequence>\\w+(?:,\\w+)?) for .*"
        arrest_free == decision.reasoning[1]
        ForCharge(docket_number, s, charge_decision) ==
            IF re_search(charge_pattern, charge_decision.name) = NoneStr
            THEN Raise(s, "AttributeError")
            ELSE IF Truthy(charge_decision.value) /\ Truthy(arrest_free.value)
            THEN count_charge(
                     set_next_step(s, docket_number,
                                   re_search(charge_pattern, charge_decision.name),
                                   SummaryStep),
                     docket_number, re_search(charge_pattern, charge_decision.name))
            ELSE IF Truthy(charge_decision.value)
            THEN set_next_step(
                     set_next_step(s, docket_number,
                                   re_search(charge_pattern, charge_decision.name),
                                   SummaryNotYetStep),
                     docket_number, re_search(charge_pattern, charge_decision.name),
                     ArrestFreeReasoning)
            ELSE s
        Close(docket_number, case_is_clearable, s) ==
            IF case_is_clearable THEN count_case(s, docket_number) ELSE s
        ForCase(s, case_decision) ==
            IF re_search(case_pattern, case_decision.name) = NoneStr
            THEN Raise(s, "AttributeError")
            ELSE Close(re_search(case_pattern, case_decision.name),
                       \E i \in 1..Len(case_decision.reasoning) :
                           /\ Truthy(case_decision.reasoning[i].value)
                           /\ Truthy(arrest_free.value),
                       FoldLeft(LAMBDA t, charge_decision :
                                    ForCharge(re_search(case_pattern, case_decision.name),
                                              t, charge_decision),
                                s, case_decision.reasoning))
    IN  FoldLeft(ForCase, summary, Tail(decision.reasoning))

\* get_decision_by_name(ds, "Fines and costs are all paid on the case .*")
get_decision_by_name(ds) ==
    SelectSeq(ds, LAMBDA d : d.name[1] = "Fines and costs are all paid on the case")

negative_decisions_only(ds) == SelectSeq(ds, LAMBDA d : ~Truthy(d.value))

\* d.type of a Decision that is no PetitionDecision, WaitDecision, ... raises
\* AttributeError
partition_decisions_raises(ds) ==
    \E i \in 1..Len(ds) : "type" \notin DOMAIN ds[i]

partition_decisions(ds, partition_type) ==
    <<SelectSeq(ds, LAMBDA d : d.type = partition_type),
      SelectSeq(ds, LAMBDA d : d.type # partition_type)>>

\* the Decisions of the full record have no Decisions as children
base_decisions(ds) == ds

\* fines_and_wait_for_sealing: <<fines_decision, wait_decisions>>, None for
\* a part that is not returned
fines_and_wait_for_sealing(charge_decision, case_decision, full_record_decision) ==
    LET Fines(found) ==
            IF found = <<>> THEN None
            ELSE IF Truthy(found[1].value) THEN None ELSE found[1]
        Waits(parts) == IF Len(parts[2]) = 0 THEN parts[1] ELSE None
    IN  <<Fines(get_decision_by_name(charge_decision.reasoning)),
          Waits(partition_decisions(
                    negative_decisions_only(base_decisions(full_record_decision.reasoning)),
                    "Wait"))>>

update_summary_for_sealing_convictions(summary, decision) ==
    LET sealing_patt == "Sealing case (?P<docket_number>.*)"
        charge_patt == "Sealing charge (?P<sequence>[0-9,]+), .*"
        full_record_decision == decision.reasoning[1]
        NotSealable(docket_number, sequence, s, found) ==
            \* found[1] is fines_all_paid, found[2] the wait_decisions
            IF found[1] = None THEN Raise(s, "AttributeError")
            ELSE IF found[2] # None /\ found[2] # <<>>
            THEN set_next_step(
                     set_next_step(s, docket_number, sequence, FinesAndWaitStep),
                     docket_number, sequence, FinesAndWaitStep)
            ELSE set_next_step(s, docket_number, sequence, FinesStep)
        ForCharge(docket_number, case_decision, s, charge_decision) ==
            IF s.raised # "" THEN s
            ELSE IF re_search(charge_patt, charge_decision.name) = NoneStr
            THEN Raise(s, "AttributeError")
            ELSE IF charge_decision.value = "Sealable"
            THEN count_charge(
                     set_next_step(s, docket_number,
                                   re_search(charge_patt, charge_decision.name),
                                   SealingChargeStep),
                     docket_number, re_search(charge_patt, charge_decision.name))
            ELSE IF partition_decisions_raises(
                        negative_decisions_only(
                            base_decisions(full_record_decision.reasoning)))
            THEN Raise(s, "AttributeError")
            ELSE NotSealable(docket_number, re_search(charge_patt, charge_decision.name),
                             s,
                             fines_and_wait_for_sealing(charge_decision, case_decision,
                                                        full_record_decision))
        Close(docket_number, case_is_clearable, s) ==
            IF case_is_clearable THEN count_case(s, docket_number) ELSE s
        ForCase(s, case_decision) ==
            IF re_search(sealing_patt, case_decision.name) = NoneStr
            THEN Raise(s, "AttributeError")
            ELSE IF case_decision.value = "All charges sealable"
            THEN FoldLeft(LAMBDA t, charge_decision :
                              count_charge(t, re_search(sealing_patt, case_decision.name),
                                           charge_decision.name[2]),
                          count_case(
                              set_next_step(s, re_search(sealing_patt, case_decision.name),
                                            NoneStr, SealingCaseStep),
                              re_search(sealing_patt, case_decision.name)),
                          case_decision.reasoning)
            ELSE Close(re_search(sealing_patt, case_decision.name),
                       \E i \in 1..Len(case_decision.reasoning) :
                           case_decision.reasoning[i].value = "Sealable",
                       FoldLeft(LAMBDA t, charge_decision :
                                    ForCharge(re_search(sealing_patt, case_decision.name),
                                              case_decision, t, charge_decision),
                                s, case_decision.reasoning))
    IN  FoldLeft(ForCase, summary, Tail(decision.reasoning))

\* decision.reasoning maps a docket number to the Decisions about the charges
\* of the case: a list of pairs <<docket number, Decisions>>
update_summary_for_automated_sealing(summary, decision) ==
    LET charge_patt == "Is the charge (?P<sequence>\\w+(?:,\\w+)?) for .*"
        Rest(ds, n) == SubSeq(ds, n, Len(ds))
        ForCharge(docket_number, s, charge_decision) ==
            IF s.raised # "" THEN s
            ELSE IF re_search(charge_patt, charge_decision.name) = NoneStr
            THEN Raise(s, "AttributeError")
            ELSE IF Truthy(charge_decision.value)
            THEN set_next_step(
                     count_charge(s, docket_number,
                                  re_search(charge_patt, charge_decision.name)),
                     docket_number, re_search(charge_patt, charge_decision.name),
                     AutosealStep)
            ELSE IF /\ Truthy(charge_decision.reasoning[1].value)
                    /\ all(Rest(charge_decision.reasoning, 3))
            THEN set_next_step(s, docket_number,
                               re_search(charge_patt, charge_decision.name),
                               AutosealFinesStep)
            ELSE IF all(Rest(charge_decision.reasoning, 2))
            THEN set_next_step(s, docket_number,
                               re_search(charge_patt, charge_decision.name),
                               AutosealLaterStep)
            ELSE s
        Close(docket_number, case_is_clearable, s) ==
            IF case_is_clearable THEN count_case(s, docket_number) ELSE s
        ForCase(s, item) ==
            Close(item[1],
                  \E i \in 1..Len(item[2]) : Truthy(item[2][i].value),
                  FoldLeft(LAMBDA t, charge_decision : ForCharge(item[1], t, charge_decision),
                           s, item[2]))
    IN  FoldLeft(ForCase, summary, decision.reasoning)

\* the summary before the Decisions are read: every case and charge of the
\* record, without next steps
NewSummary(crecord) ==
    LET CaseOf(d) ==
            crecord.cases[CHOOSE i \in 1..Len(crecord.cases) :
                              /\ crecord.cases[i].docket_number = d
                              /\ \A j \in (i + 1)..Len(crecord.cases) :
                                     crecord.cases[j].docket_number # d]
        ChargeOf(case, q) ==
            case.charges[CHOOSE k \in 1..Len(case.charges) :
                             /\ case.charges[k].sequence = q
                             /\ \A j \in (k + 1)..Len(case.charges) :
                                    case.charges[j].sequence # q]
        Entry(case, charge) ==
            [is_conviction |-> Charge_is_conviction(charge),
             grade |-> charge.grade,
             disposition |-> IF charge.disposition # NoneStr
                             THEN charge.disposition ELSE MissingDisposition,
             disposition_date |-> IF charge.disposition_date # None
                                  THEN charge.disposition_date
                                  ELSE case.disposition_date,
             next_steps |-> <<>>]
        Charges(case) ==
            [q \in {case.charges[k].sequence : k \in 1..Len(case.charges)} |->
                Entry(case, ChargeOf(case, q))]
    IN  [raised |-> "", errs |-> <<>>,
         clearable_cases |-> 0, clearable_charges |-> 0,
         counted_cases |-> <<>>, counted_charges |-> <<>>,
         cases |-> [d \in {crecord.cases[i].docket_number : i \in 1..Len(crecord.cases)} |->
                       [next_steps |-> <<>>, charges |-> Charges(CaseOf(d))]]]

\* summarize_decision that passes over a Decision it has no name for
summarize_decision_silent(summary, decision, iterable) ==
    IF summary.raised # "" THEN summary
    ELSE CASE decision.name = "Traffic Court cases removed from consideration." ->
                update_summary_for_traffic_cases(summary, decision)
           [] decision.name = "Expungements for a person over 70." ->
                update_summary_for_over_70_expungements(summary, decision, iterable)
           [] decision.name
                = "Expungements for a deceased person, after three years afther their death." ->
                update_summary_for_deceased_expungements(summary, decision, iterable)
           [] decision.name = "Expungements of nonconvictions." ->
                update_summary_for_nonconviction_expungements(summary, decision)
           [] decision.name = "Expungements for summary convictions." ->
                update_summary_for_summary_convictions(summary, decision)
           [] decision.name = "Sealing some convictions under the Clean Slate reforms." ->
                update_summary_for_sealing_convictions(summary, decision)
           [] decision.name = "Eligibility for Automated Sealing" ->
                update_summary_for_automated_sealing(summary, decision)
           [] OTHER -> summary

\* the body of the loop over the Decisions
summarize_decision(summary, decision, iterable) ==
    IF summary.raised # "" THEN summary
    ELSE CASE decision.name = "Traffic Court cases removed from consideration." ->
                update_summary_for_traffic_cases(summary, decision)
           [] decision.name = "Expungements for a person over 70." ->
                update_summary_for_over_70_expungements(summary, decision, iterable)
           [] decision.name
                = "Expungements for a deceased person, after three years afther their death." ->
                update_summary_for_deceased_expungements(summary, decision, iterable)
           [] decision.name = "Expungements of nonconvictions." ->
                update_summary_for_nonconviction_expungements(summary, decision)
           [] decision.name = "Expungements for summary convictions." ->
                update_summary_for_summary_convictions(summary, decision)
           [] decision.name = "Sealing some convictions under the Clean Slate reforms." ->
                update_summary_for_sealing_convictions(summary, decision)
           [] decision.name = "Eligibility for Automated Sealing" ->
                update_summary_for_automated_sealing(summary, decision)
           [] OTHER ->
                [summary EXCEPT !.errs = Append(@, <<"Decision named", decision.name,
                                                    "not recognized in summarize().">>)]

\* pardon_pass that gives the note whatever the case's own next step is
pardon_pass_any_case(summary) ==
    LET After(case) ==
            IF DOMAIN case.charges = {}
            THEN [case EXCEPT !.next_steps = <<NoChargesStep>>]
            ELSE IF /\ \E q \in DOMAIN case.charges : case.charges[q].next_steps = <<>>
                    /\ \E q \in DOMAIN case.charges : case.charges[q].is_conviction
            THEN [case EXCEPT !.next_steps = Append(@, PardonStep)]
            ELSE case
    IN  IF summary.raised # "" THEN summary
        ELSE [summary EXCEPT !.cases = [d \in DOMAIN summary.cases |-> After(summary.cases[d])]]

\* the pass over the cases after the Decisions: a case without charges, and
\* the case of a charge without next steps
pardon_pass(summary) ==
    LET After(case) ==
            IF DOMAIN case.charges = {}
            THEN [case EXCEPT !.next_steps = <<NoChargesStep>>]
            ELSE IF /\ case.next_steps = <<>>
                    /\ \E q \in DOMAIN case.charges : case.charges[q].next_steps = <<>>
                    /\ \E q \in DOMAIN case.charges : case.charges[q].is_conviction
            THEN [case EXCEPT !.next_steps = <<PardonStep>>]
            ELSE case
    IN  IF summary.raised # "" THEN summary
        ELSE [summary EXCEPT !.cases = [d \in DOMAIN summary.cases |-> After(summary.cases[d])]]

\* summarize(analysis) of an Analysis with this record and these Decisions:
\* the summary, with its errs, or the exception raised
summarize_of(crecord, ds, iterable) ==
    pardon_pass(FoldLeft(LAMBDA s, decision : summarize_decision(s, decision, iterable),
                         NewSummary(crecord), ds))

\* the call summarize(analysis); `iterable` tells whether a Petition can be
\* iterated over
summarize(iterable) ==
    /\ summarized' = summarize_of(record, decisions, iterable)
    /\ UNCHANGED <<record, remaining_record, decisions, applied, given, raised>>

(***************************************************************************)
(* Input records                                                           *)
(***************************************************************************)
SequenceNames == <<"1", "2", "3", "4">>
DocketNames == <<"CP-1", "CP-2", "CP-3", "CP-4">>
TrafficDocketNames == <<"MD-TR-1", "MD-TR-2", "MD-TR-3", "MD-TR-4">>

\* the ways of taking k of the kinds 1..h: increasing lists of k numbers
Choices(h, k) ==
    {g \in [1..k -> 1..h] : \A i \in 1..(k - 1) : g[i] < g[i + 1]}

\* k[1] + ... + k[n]
RECURSIVE SumTo(_, _)
SumTo(k, n) == IF n = 0 THEN 0 ELSE k[n] + SumTo(k, n - 1)

\* the numbers of charges of n cases, at most MaxCharges in total
ChargeCounts(n) ==
    {k \in [1..n -> 0..MaxCharges] : SumTo(k, n) <= MaxCharges}

\* for each of the first n cases, the kinds of its k[i] charges
RECURSIVE ChargeChoices(_, _, _)
ChargeChoices(h, k, n) ==
    IF n = 0 THEN {<<>>}
    ELSE {Append(rest, c) : rest \in ChargeChoices(h, k, n - 1), c \in Choices(h, k[n])}

Person(date_of_birth, date_of_death) ==
    [date_of_birth |-> date_of_birth, date_of_death |-> date_of_death]

Sentence(sentence_date, sentence_type, max_time) ==
    [sentence_date |-> sentence_date, sentence_type |-> sentence_type, max_time |-> max_time]

Charge(grade, statute, disposition, disposition_date, sentences) ==
    [sequence |-> "", grade |-> grade, statute |-> statute, disposition |-> disposition,
     disposition_date |-> disposition_date, sentences |-> sentences]

Case(docket_number, status, arrest_date, disposition_date, total_fines, fines_paid) ==
    [docket_number |-> docket_number, status |-> status, arrest_date |-> arrest_date,
     disposition_date |-> disposition_date, total_fines |-> total_fines,
     fines_paid |-> fines_paid, charges |-> <<>>]

\* the record of a person with n cases of the kinds ck; case i has k[i]
\* charges of the kinds ch[i], numbered in order.  A kind of case tells by
\* its docket number whether it is a traffic case.
RecordOf(person, n, k, ck, ch, chargeKinds) ==
    CRecord(person,
            [i \in 1..n |->
                [ck[i] EXCEPT
                    !.docket_number = IF ck[i].docket_number = "MD-TR"
                                      THEN TrafficDocketNames[i] ELSE DocketNames[i],
                    !.charges = [j \in 1..k[i] |->
                                    [chargeKinds[ch[i][j]] EXCEPT
                                        !.sequence = SequenceNames[j]]]]])

\* an Analysis of a record of one of the persons with at most MaxCases cases
\* of the kinds caseKinds and at most MaxCharges charges in all, the charges
\* of a case being of different kinds of the list chargeKinds
AnalysisOf(persons, caseKinds, chargeKinds) ==
    \E person \in persons, n \in 0..MaxCases :
        \E k \in ChargeCounts(n), ck \in [1..n -> caseKinds] :
            \E ch \in ChargeChoices(Len(chargeKinds), k, n) :
                Analysis(RecordOf(person, n, k, ck, ch, chargeKinds))

\* records on which every rule has something to do: a person of 40 and a
\* person of 75 who died four years ago, an old case and a recent traffic
\* case, a summary conviction, a misdemeanor conviction and a charge that
\* was dropped
Init ==
    AnalysisOf({Person(<<1980, 1>>, None), Person(<<1945, 1>>, <<2016, 1>>)},
               {Case("CP", "Closed", <<2005, 1>>, <<2006, 1>>, None, None),
                Case("MD-TR", "Closed", <<2019, 1>>, None, None, None)},
               <<Charge("S", "18 s 3921", "Guilty", None, <<>>),
                 Charge("M2", "18 s 3921", "Guilty", None, <<>>),
                 Charge("M2", "18 s 3921", "Nolle Prossed", None, <<>>)>>)

Next == \E ruledef \in RuleNames : Len(applied) < MaxRules /\ rule(ruledef)

Spec == Init /\ [][Next]_vars

\* records around the thresholds of expunge_over_70: ages 69, 70 and 71, last
\* actions 9 and 10 years ago, confinement ended 10 or 11 years ago, and
\* sentences that do not tell when they ended
InitOver70 ==
    AnalysisOf({Person(<<1950, 2>>, None), Person(<<1950, 3>>, None),
                Person(<<1949, 2>>, None)},
               {Case("CP", "Closed", <<2010, 2>>, None, None, None),
                Case("CP", "Closed", <<2010, 3>>, None, None, None)},
               <<Charge("M2", "18 s 3921", "Guilty", None, <<>>),
                 Charge("M2", "18 s 3921", "Guilty", None,
                        <<Sentence(<<2010, 1>>, "Confinement", <<1>>)>>),
                 Charge("M2", "18 s 3921", "Guilty", None,
                        <<Sentence(<<2009, 1>>, "Confinement", <<1>>)>>),
                 Charge("M2", "18 s 3921", "Guilty", None,
                        <<Sentence(None, "Confinement", <<1>>)>>),
                 Charge("M2", "18 s 3921", "Guilty", None,
                        <<Sentence(None, "Probation", None)>>)>>)

\* records with every kind of disposition and grade, last actions 5 and 6
\* years ago, and an active case
InitDisposition ==
    AnalysisOf({Person(<<1980, 1>>, None)},
               {Case("CP", "Closed", <<2015, 2>>, None, None, None),
                Case("CP", "Closed", <<2014, 2>>, None, None, None),
                Case("CP", "Active", <<2005, 1>>, None, None, None)},
               <<Charge("S", "18 s 3921", "Guilty", None, <<>>),
                 Charge("S ", "18 s 3921", "Guilty", None, <<>>),
                 Charge("M2", "18 s 3921", "Guilty", None, <<>>),
                 Charge("M2", "18 s 3921", "Nolle Prossed", None, <<>>),
                 Charge("S", "18 s 3921", "Not Guilty", None, <<>>),
                 Charge("M2", "18 s 3921", NoneStr, None, <<>>),
                 Charge("M2", "18 s 3921", "", None, <<>>),
                 Charge("M2", "18 s 3921", " ", None, <<>>)>>)

\* records for sequences of partition rules: an old and a recent case
InitPartition ==
    AnalysisOf({Person(<<1980, 1>>, None)},
               {Case("CP", "Closed", <<2005, 1>>, <<2006, 1>>, None, None),
                Case("CP", "Closed", <<2019, 1>>, None, None, None)},
               <<Charge("S", "18 s 3921", "Guilty", None, <<>>),
                 Charge("M2", "18 s 3921", "Guilty", None, <<>>),
                 Charge("M2", "18 s 3921", "Nolle Prossed", None, <<>>)>>)

\* one rule function applied to the input record
NextOnce == \E ruledef \in RuleNames : Len(applied) < 1 /\ rule(ruledef)

\* a sequence of partition rules
NextPartition ==
    \E ruledef \in PartitionRules : Len(applied) < MaxPartitionRules /\ rule(ruledef)

SpecOver70 == InitOver70 /\ [][NextOnce]_vars

SpecDisposition == InitDisposition /\ [][NextOnce]_vars

SpecPartition == InitPartition /\ [][NextPartition]_vars

\* records for the sealing rules: cases with fines unknown, unpaid and paid,
\* an old and a recent case, a case without disposition date, and charges
\* that differ in grade, statute, disposition and disposition date
InitSealing ==
    AnalysisOf({Person(<<1980, 1>>, None)},
               {Case("CP", "Closed", <<2005, 1>>, <<2006, 1>>, None, None),
                Case("CP", "Closed", <<2005, 1>>, <<2006, 1>>, <<100>>, <<50>>),
                Case("CP", "Closed", <<2015, 1>>, <<2015, 2>>, <<100>>, <<100>>),
                Case("CP", "Closed", <<2005, 1>>, None, None, None)},
               <<Charge("M2", "18 s 3921", "Guilty", <<2006, 1>>, <<>>),
                 Charge("M2", "18 s 3921", "Guilty", None, <<>>),
                 Charge("F1", "18 s 3921", "Guilty", <<2006, 1>>, <<>>),
                 Charge("M1", "18 s 2702", "Guilty", <<2006, 1>>, <<>>),
                 Charge("M2", "18 s 3921", "Nolle Prossed", <<2006, 1>>, <<>>)>>)

SpecSealing == InitSealing /\ [][NextOnce]_vars

(***************************************************************************)
(* What a record holds                                                     *)
(***************************************************************************)
\* the docket numbers of the cases of a list of cases
DocketsOf(cases) == {cases[i].docket_number : i \in 1..Len(cases)}

\* the (docket number, charge sequence) pairs of a list of cases
ChargesOf(cases) ==
    UNION {{<<cases[i].docket_number, cases[i].charges[k].sequence>> :
              k \in 1..Len(cases[i].charges)} : i \in 1..Len(cases)}

\* the cases named by the petitions of a PetitionDecision's value
PetitionCases(petitions) ==
    Flatten([i \in 1..Len(petitions) |-> petitions[i].cases])

\* what the first n rules of `rules` return when the first is called with
\* rec and each of the others with the remainder the one before it returned
RECURSIVE ResultsOf(_, _, _)
ResultsOf(rules, rec, n) ==
    IF n = 0 THEN <<>>
    ELSE CHOOSE results \in
            {Append(before,
                    Call(rules[n], IF n = 1 THEN rec ELSE before[n - 1].remaining)) :
                before \in {ResultsOf(rules, rec, n - 1)}} : TRUE

(***************************************************************************)
(* C1: Analysis.rule(r) calls r with the current remaining record, stores  *)
(* the record r returns as the remaining record and appends r's Decision:  *)
(* after r1..rn, decisions has n entries, the i-th is the Decision ri      *)
(* returned for the remainder left by r1..r(i-1), and remaining_record is  *)
(* the remainder left by r1..rn.                                           *)
(***************************************************************************)
C1_RuleThreadsRemainderAndDecisions ==
    /\ Len(decisions) = Len(applied)
    /\ \A results \in {ResultsOf(applied, record, Len(applied))} :
          /\ \A i \in 1..Len(applied) : decisions[i] = results[i].decision
          /\ remaining_record = IF Len(applied) = 0 THEN record
                                ELSE results[Len(applied)].remaining

C1_Witness ==
    /\ applied = <<"expunge_nonconvictions", "expunge_summary_convictions">>
    /\ Len(decisions) = 2
    /\ decisions[1].value # <<>>
    /\ decisions[2].value # <<>>
    /\ given[2] # record
    /\ remaining_record # given[2]

(***************************************************************************)
(* C2: no rule application changes analysis.record: it keeps the cases,    *)
(* charges and field values it had when the Analysis was constructed.      *)
(***************************************************************************)
C2_OriginalRecordUnchanged == [][record' = record]_vars

C2_Witness ==
    /\ Len(applied) = 2
    /\ record.cases # <<>>
    /\ given[2] # record
    /\ remaining_record # given[2]

(***************************************************************************)
(* C4: the cases and the (docket number, charge sequence) pairs of         *)
(* remaining_record never grow along a sequence of rule applications.      *)
(***************************************************************************)
C4_RemainderNeverGrows ==
    [][/\ DocketsOf(remaining_record'.cases) \subseteq DocketsOf(remaining_record.cases)
       /\ ChargesOf(remaining_record'.cases) \subseteq ChargesOf(remaining_record.cases)]_vars

C4_Witness ==
    /\ Len(applied) = 2
    /\ ChargesOf(given[2].cases) # ChargesOf(given[1].cases)
    /\ ChargesOf(remaining_record.cases) # ChargesOf(given[2].cases)

(***************************************************************************)
(* The last rule applied, the record it was given and what it returned     *)
(***************************************************************************)
LastRule == applied[Len(applied)]
LastGiven == given[Len(given)]
LastDecision == decisions[Len(decisions)]

\* the charges of the case with this docket number, <<>> when there is none
ChargesOfDocket(cases, docket_number) ==
    Flatten([i \in 1..Len(cases) |->
                IF cases[i].docket_number = docket_number THEN cases[i].charges ELSE <<>>])

\* a disposition that is missing, empty or blank
BlankDisposition(charge) ==
    charge.disposition = NoneStr \/ strip(charge.disposition) = ""

\* the (docket number, sequence) pairs of the charges of `cases` that satisfy Test
ChargesWhere(cases, Test(_)) ==
    UNION {{<<cases[i].docket_number, cases[i].charges[k].sequence>> :
              k \in {j \in 1..Len(cases[i].charges) : Test(cases[i].charges[j])}} :
           i \in 1..Len(cases)}

(***************************************************************************)
(* C3: every partition rule is an exact partition of the record it is      *)
(* given: every charge is covered by a petition or is in the remainder and *)
(* never both, and every case, also one without charges, is covered by a   *)
(* petition or is in the remainder.                                        *)
(***************************************************************************)
C3_ExactPartition ==
    (Len(applied) > 0 /\ LastRule \in PartitionRules) =>
        LET covered == PetitionCases(LastDecision.value)
        IN  /\ ChargesOf(covered) \cup ChargesOf(remaining_record.cases)
                  = ChargesOf(LastGiven.cases)
            /\ ChargesOf(covered) \cap ChargesOf(remaining_record.cases) = {}
            /\ DocketsOf(covered) \cup DocketsOf(remaining_record.cases)
                  = DocketsOf(LastGiven.cases)

(***************************************************************************)
(* C5: when a sequence of partition rules is run a second time on the      *)
(* remainder of its first run, every rule of the second run returns no     *)
(* petition and a remainder with the cases and charges it was given.       *)
(***************************************************************************)
ReturnedAt(i) == IF i < Len(applied) THEN given[i + 1] ELSE remaining_record

C5_SecondRunMovesNothing ==
    \A k \in 1..MaxPartitionRules :
        (Len(applied) = 2 * k /\ SubSeq(applied, 1, k) = SubSeq(applied, k + 1, 2 * k)) =>
            \A i \in (k + 1)..(2 * k) :
                /\ decisions[i].value = <<>>
                /\ DocketsOf(ReturnedAt(i).cases) = DocketsOf(given[i].cases)
                /\ ChargesOf(ReturnedAt(i).cases) = ChargesOf(given[i].cases)

(***************************************************************************)
(* C6: expunge_over_70 is all-or-nothing: when its three conditions hold   *)
(* the value is one full-expungement petition per case of the input and    *)
(* the remainder has no cases; otherwise the value is empty and the        *)
(* remainder has the cases of the input.                                   *)
(***************************************************************************)
C6_Over70AllOrNothing ==
    applied = <<"expunge_over_70">> =>
        IF /\ Truthy(is_over_age(given[1].person, 70).value)
           /\ Truthy(years_since_last_contact(given[1], 10).value)
           /\ Truthy(years_since_final_release_decision(given[1], 10).value)
        THEN /\ Len(decisions[1].value) = Len(given[1].cases)
             /\ \A i \in 1..Len(given[1].cases) :
                   /\ decisions[1].value[i].cases = <<given[1].cases[i]>>
                   /\ decisions[1].value[i].expungement_type = "FULL_EXPUNGEMENT"
             /\ remaining_record.cases = <<>>
        ELSE /\ decisions[1].value = <<>>
             /\ remaining_record.cases = given[1].cases

C6_Witness ==
    /\ applied = <<"expunge_over_70">>
    /\ Len(given[1].cases) = 2
    /\ Len(decisions[1].value) = 2
    /\ remaining_record.cases = <<>>

(***************************************************************************)
(* C7: a person aged 70 or more, 10 or more years after the last arrest or *)
(* prosecution and 10 or more years after final release, the boundary      *)
(* values included, gets every case proposed for expungement.              *)
(***************************************************************************)
C7_Over70BoundaryIncluded ==
    (/\ applied = <<"expunge_over_70">>
     /\ age(given[1].person) >= 70
     /\ years_since_last_arrested_or_prosecuted(given[1]) >= 10
     /\ years_since_final_release(given[1]) >= 10) =>
        /\ Len(decisions[1].value) = Len(given[1].cases)
        /\ remaining_record.cases = <<>>

(***************************************************************************)
(* C8: expunge_nonconvictions puts a charge in a petition iff the charge   *)
(* is neither a conviction nor unresolved, a missing, empty or blank       *)
(* disposition counting as unresolved; a charge with such a disposition    *)
(* stays in the remaining record.                                          *)
(***************************************************************************)
C8_NonconvictionsExactlyResolvedNonconvictions ==
    applied = <<"expunge_nonconvictions">> =>
        LET Expungeable(charge) ==
                ~Charge_is_conviction(charge) /\ ~BlankDisposition(charge)
        IN  /\ ChargesOf(PetitionCases(decisions[1].value))
                  = ChargesWhere(given[1].cases, Expungeable)
            /\ ChargesWhere(given[1].cases, BlankDisposition)
                  \subseteq ChargesOf(remaining_record.cases)

(***************************************************************************)
(* C9: a petition of expunge_nonconvictions or expunge_summary_convictions *)
(* holds exactly the qualifying charges of its case; it is FULL exactly    *)
(* when every charge of the case qualifies and PARTIAL exactly when some   *)
(* but not all charges qualify.                                            *)
(***************************************************************************)
QualifiesUnder(ruledef, crecord, charge) ==
    IF ruledef = "expunge_nonconvictions"
    THEN ~Truthy(is_conviction_or_unresolved(charge).value)
    ELSE /\ Truthy(arrest_free_for_n_years(crecord, 5).value)
         /\ Truthy(is_summary_conviction(charge).value)

C9_FullOrPartialExpungement ==
    (/\ Len(applied) = 1
     /\ applied[1] \in {"expunge_nonconvictions", "expunge_summary_convictions"}) =>
        \A i \in 1..Len(decisions[1].value) :
            LET petition == decisions[1].value[i]
                original == ChargesOfDocket(given[1].cases, petition.cases[1].docket_number)
                Qualifies(charge) == QualifiesUnder(applied[1], given[1], charge)
                qualifying == Filter(original, Qualifies)
            IN  /\ Len(petition.cases) = 1
                /\ petition.cases[1].charges = qualifying
                /\ petition.expungement_type = "FULL_EXPUNGEMENT"
                      <=> Len(qualifying) = Len(original)
                /\ petition.expungement_type = "PARTIAL_EXPUNGEMENT"
                      <=> (Len(qualifying) > 0 /\ Len(qualifying) < Len(original))

C9_Witness ==
    /\ Len(applied) = 1
    /\ applied[1] \in {"expunge_nonconvictions", "expunge_summary_convictions"}
    /\ Len(decisions[1].value) = 1
    /\ decisions[1].value[1].expungement_type = "PARTIAL_EXPUNGEMENT"
    /\ Len(remaining_record.cases) = 1

C11_SealingPetitionIffSealableCharge ==
    applied = <<"seal_convictions">> =>
        LET Check(full) ==
                /\ \A i \in 1..Len(given[1].cases) :
                      LET case == given[1].cases[i]
                          Sealable(charge) ==
                              all(SealingChargeReasoning(case, charge)) /\ full
                          NotSealable(charge) == ~Sealable(charge)
                          petitioned ==
                              {j \in 1..Len(decisions[1].value) :
                                  decisions[1].value[j].cases[1].docket_number
                                      = case.docket_number}
                      IN  /\ petitioned # {} <=> Len(Filter(case.charges, Sealable)) > 0
                          /\ \A j \in petitioned :
                                decisions[1].value[j].cases[1].charges
                                    = Filter(case.charges, Sealable)
                          /\ case.docket_number \in DocketsOf(remaining_record.cases)
                                <=> Len(Filter(case.charges, NotSealable)) > 0
                          /\ ChargesOfDocket(remaining_record.cases, case.docket_number)
                                = Filter(case.charges, NotSealable)
                /\ ~full => decisions[1].value = <<>>
        IN  Check(Truthy(full_record_requirements_for_petition_sealing(given[1]).value))

(***************************************************************************)
(* C12: autosealing_eligibility returns the record it was given, and its   *)
(* Decision puts every charge of that record in exactly one of             *)
(* value.eligible and value.ineligible: in eligible exactly when the six   *)
(* decisions of is_charge_autosealable are all true.                       *)
(***************************************************************************)
AutosealableIn(crecord, i, k) ==
    LET d == is_charge_autosealable(
                 crecord.cases[i].charges[k], crecord.cases[i], crecord,
                 all_fines_and_costs_paid(crecord),
                 record_contains_no_convictions_excluded_from_sealing(crecord))
    IN  Len(d.reasoning) = 6 /\ all(d.reasoning)

C12_AutosealingClassifiesEveryCharge ==
    applied = <<"autosealing_eligibility">> =>
        LET all_charges ==
                UNION {{<<i, k>> : k \in 1..Len(given[1].cases[i].charges)} :
                       i \in 1..Len(given[1].cases)}
            Pair(i, k) ==
                <<given[1].cases[i].docket_number, given[1].cases[i].charges[k].sequence>>
        IN  /\ remaining_record = given[1]
            /\ ChargesOf(decisions[1].value.eligible)
                  = {Pair(c[1], c[2]) : c \in {x \in all_charges :
                                                  AutosealableIn(given[1], x[1], x[2])}}
            /\ ChargesOf(decisions[1].value.ineligible)
                  = {Pair(c[1], c[2]) : c \in {x \in all_charges :
                                                  ~AutosealableIn(given[1], x[1], x[2])}}
            /\ \A j \in 1..Len(decisions[1].value.eligible) :
                  \A k \in 1..Len(decisions[1].value.eligible[j].charges) :
                      \E i \in 1..Len(given[1].cases) :
                          /\ given[1].cases[i].docket_number
                                = decisions[1].value.eligible[j].docket_number
                          /\ \E m \in 1..Len(given[1].cases[i].charges) :
                                given[1].cases[i].charges[m]
                                    = decisions[1].value.eligible[j].charges[k]

C12_Witness ==
    /\ applied = <<"autosealing_eligibility">>
    /\ Len(given[1].cases) = 2
    /\ Len(decisions[1].value.eligible) = 1
    /\ Len(decisions[1].value.ineligible) = 1
    /\ remaining_record = given[1]

\* an Analysis of at most MaxRules rules, the caller's own rule among them,
\* and then summarize
NextSummary ==
    \/ \E ruledef \in RuleNames \cup {"unrecognized_rule"} :
           summarized = None /\ Len(applied) < MaxRules /\ rule(ruledef)
    \/ \E iterable \in BOOLEAN : summarized = None /\ summarize(iterable)

\* records for summarize: a person of 40 and a person of 75 who died four
\* years ago, an old case and a recent traffic case, a conviction and a
\* charge that was dropped
InitSummary ==
    AnalysisOf({Person(<<1980, 1>>, None), Person(<<1945, 1>>, <<2016, 1>>)},
               {Case("CP", "Closed", <<2005, 1>>, <<2006, 1>>, None, None),
                Case("MD-TR", "Closed", <<2019, 1>>, None, None, None)},
               <<Charge("M2", "18 s 3921", "Guilty", None, <<>>),
                 Charge("M2", "18 s 3921", "Nolle Prossed", None, <<>>)>>)

SpecSummary == InitSummary /\ [][NextSummary]_vars

(***************************************************************************)
(* C13: filter_traffic_cases takes out of the record exactly the cases     *)
(* whose docket number contains "TR", lists exactly those cases as the     *)
(* value of its Decision, and leaves the other cases in the remainder, in  *)
(* their order and with their charges.                                     *)
(***************************************************************************)
C13_TrafficCasesFilteredExactly ==
    (Len(applied) > 0 /\ LastRule = "filter_traffic_cases") =>
        /\ remaining_record.person = LastGiven.person
        /\ remaining_record.cases
              = SelectSeq(LastGiven.cases, LAMBDA case : ~ContainsTR(case.docket_number))
        /\ LastDecision.value
              = SelectSeq(LastGiven.cases, LAMBDA case : ContainsTR(case.docket_number))

C13_Witness ==
    /\ applied = <<"filter_traffic_cases">>
    /\ Len(decisions[1].value) = 1
    /\ Len(remaining_record.cases) = 1
    /\ Len(remaining_record.cases[1].charges) > 0
    /\ record.cases[1].docket_number = decisions[1].value[1].docket_number

\* the texts of next_steps
Texts(next_steps) == {next_steps[i] : i \in 1..Len(next_steps)}

\* the docket numbers of the traffic cases of the original record
TrafficDockets ==
    {record.cases[i].docket_number :
        i \in {j \in 1..Len(record.cases) : ContainsTR(record.cases[j].docket_number)}}

(***************************************************************************)
(* C14: when filter_traffic_cases is the first rule, summarize returns a   *)
(* summary in which every traffic case carries the next step about traffic *)
(* court cases, and no increment of clearable_cases or clearable_charges   *)
(* is for a traffic case or a charge of one.                               *)
(***************************************************************************)
C14_TrafficCasesReportedNeverCounted ==
    (summarized # None /\ Len(applied) > 0 /\ applied[1] = "filter_traffic_cases") =>
        /\ summarized.raised = ""
        /\ \A d \in TrafficDockets :
               TrafficStep \in Texts(summarized.cases[d].next_steps)
        /\ \A i \in 1..Len(summarized.counted_cases) :
               summarized.counted_cases[i] \notin TrafficDockets
        /\ \A i \in 1..Len(summarized.counted_charges) :
               summarized.counted_charges[i][1] \notin TrafficDockets

\* the Decisions whose name summarize knows, and the others
KnownDecisions == SelectSeq(decisions, LAMBDA d : d.name \in KnownNames)
UnknownDecisions == SelectSeq(decisions, LAMBDA d : d.name \notin KnownNames)

C16_SummarizeTotalOverKnownRules ==
    (summarized # None /\ \A i \in 1..Len(applied) : applied[i] \in RuleNames) =>
        summarized.raised = ""

CaseSteps == {TrafficStep, PetitionStep, SealingCaseStep}

HeldForCourt(disposition) ==
    disposition \in {"Held for Court", "Held for Court (Lower Court)"}

\* a or b on two optional strings
Or(a, b) == IF a \notin {NoneStr, ""} THEN a ELSE b

\* find_case_by_otn on the cases of the record: a case once for every one of
\* its charges when the OTN of the case or of the charge matches
find_case_by_otn(cases, otn, except_for_docket_numbers) ==
    IF otn = NoneStr THEN <<>>
    ELSE Flatten([i \in 1..Len(cases) |->
                     [k \in {j \in 1..Len(cases[i].charges) :
                                /\ (cases[i].otn = otn \/ cases[i].charges[j].otn = otn)
                                /\ cases[i].docket_number \notin except_for_docket_numbers}
                         |-> cases[i]]])

remove_case_by_docket_number(cases, docket_number) ==
    SelectSeq(cases, LAMBDA case : case.docket_number # docket_number)

\* case.remove_charge_by_index(idx), idx counted from 1
remove_charge_by_index(case, idx) ==
    [case EXCEPT !.charges = SubSeq(@, 1, idx - 1) \o SubSeq(@, idx + 1, Len(@))]

\* the case of the list with this docket number, <<>> when it has been taken
\* out of the list
CaseAt(cases, docket_number) ==
    SelectSeq(cases, LAMBDA case : case.docket_number = docket_number)

\* the loop over enumerate(case.charges) from position idx on, for the case
\* with this docket number: the list of charges shrinks under the loop when
\* a charge is removed, and the loop goes on at the next position
RECURSIVE TransferCharges(_, _, _)
TransferCharges(cases, docket_number, idx) ==
    LET Moved(case, other_case) ==
            [i \in 1..Len(cases) |->
                IF cases[i].docket_number = other_case.docket_number
                THEN [cases[i] EXCEPT !.related_cases = Append(@, docket_number)]
                ELSE IF cases[i].docket_number = docket_number
                THEN remove_charge_by_index(case, idx)
                ELSE cases[i]]
        After(case, moved) ==
            IF Len(case.charges) = 1
            THEN remove_case_by_docket_number(moved, docket_number)
            ELSE TransferCharges(moved, docket_number, idx + 1)
        Step(case, other_cases) ==
            IF HeldForCourt(case.charges[idx].disposition) /\ Len(other_cases) > 0
            THEN After(case, Moved(case, other_cases[1]))
            ELSE TransferCharges(cases, docket_number, idx + 1)
        Loop(found) ==
            IF found = <<>> THEN cases
            ELSE IF idx > Len(found[1].charges) THEN cases
            ELSE Step(found[1],
                      find_case_by_otn(cases,
                                       Or(found[1].otn, found[1].charges[idx].otn),
                                       {docket_number}))
    IN  Loop(CaseAt(cases, docket_number))

\* handle_transferred_cases: the loop over the cases that the record had
\* when the loop began
handle_transferred_cases(cases) ==
    FoldLeft(LAMBDA cs, case : TransferCharges(cs, case.docket_number, 1), cases, cases)

\* add_case; Case has no method merge, so the call for a docket number that
\* the record already has raises AttributeError
add_case(new_case) ==
    /\ raised = ""
    /\ IF \E i \in 1..Len(record.cases) :
              record.cases[i].docket_number = new_case.docket_number
       THEN /\ raised' = "AttributeError"
            /\ UNCHANGED <<record, applied, given>>
       ELSE /\ record' = [record EXCEPT !.cases =
                                     handle_transferred_cases(Append(@, new_case))]
            /\ applied' = Append(applied, "add_case")
            /\ given' = Append(given, new_case)
            /\ UNCHANGED raised
    /\ UNCHANGED <<remaining_record, decisions, summarized>>

\* the lists of at most n of the things
RECURSIVE SeqsUpTo(_, _)
SeqsUpTo(things, n) ==
    IF n = 0 THEN {<<>>}
    ELSE SeqsUpTo(things, n - 1)
           \cup {Append(q, t) : q \in {r \in SeqsUpTo(things, n - 1) : Len(r) = n - 1},
                                 t \in things}

\* the cases given to add_case: one of the first MaxCases docket numbers, an
\* OTN or none, and at most MaxCharges charges that were held for court or
\* ended in a conviction
NewCases ==
    {[docket_number |-> DocketNames[d], otn |-> otn, charges |-> charges,
      related_cases |-> <<>>] :
        d \in 1..MaxCases, otn \in {"12345", NoneStr},
        charges \in SeqsUpTo({[disposition |-> "Held for Court", otn |-> NoneStr],
                              [disposition |-> "Guilty", otn |-> NoneStr]}, MaxCharges)}

\* CRecord(person, cases=[])
InitAddCase ==
    /\ record = CRecord(Person(<<1980, 1>>, None), <<>>)
    /\ remaining_record = None
    /\ decisions = <<>>
    /\ applied = <<>>
    /\ given = <<>>
    /\ raised = ""
    /\ summarized = None

NextAddCase == \E new_case \in NewCases : Len(applied) < MaxCases /\ add_case(new_case)

SpecAddCase == InitAddCase /\ [][NextAddCase]_vars

(***************************************************************************)
(* C18: the docket numbers of the cases of a record are different from     *)
(* one another after any calls of add_case, and add_case of a case whose   *)
(* docket number the record has returns, the case merged, with the number  *)
(* of cases as it was.                                                     *)
(***************************************************************************)
C18_DocketNumbersUniqueAndMerged ==
    [][\A new_case \in NewCases :
          add_case(new_case) =>
              /\ raised' = ""
              /\ \A i, j \in 1..Len(record'.cases) :
                     record'.cases[i].docket_number = record'.cases[j].docket_number
                        => i = j
              /\ (\E i \in 1..Len(record.cases) :
                      record.cases[i].docket_number = new_case.docket_number)
                    => Len(record'.cases) = Len(record.cases)]_vars

(***************************************************************************)
(* C19: after add_case has returned, no case of the record has a charge    *)
(* held for court while another case of the record has the same OTN.       *)
(***************************************************************************)
C19_NoTransferredChargeLeft ==
    (Len(applied) > 0 /\ raised = "") =>
        \A i \in 1..Len(record.cases) : \A k \in 1..Len(record.cases[i].charges) :
            HeldForCourt(record.cases[i].charges[k].disposition) =>
                ~\E j \in 1..Len(record.cases) :
                     /\ j # i
                     /\ Or(record.cases[i].otn, record.cases[i].charges[k].otn) # NoneStr
                     /\ record.cases[j].otn
                           = Or(record.cases[i].otn, record.cases[i].charges[k].otn)

(***************************************************************************)
(* Charge.combine_with.  `given` is <<self, charge>> as they were before   *)
(* the call and `record` is self, as the call left it.                     *)
(***************************************************************************)
\* re.search(r"nolle|guilt|dismiss|withdraw", disposition, re.I)
MatchesFinal(disposition) ==
    disposition \in {"Guilty", "Guilty Plea", "Not Guilty", "Nolle Prossed",
                     "Dismissed", "Withdrawn"}

\* the int n as the value of an attribute is written "int n"
IntNames == {"int 1", "int 2"}

\* isinstance(v, str) for the value of an attribute that holds a str, an
\* int or None
isinstance_str(v) == v \notin IntNames \cup {NoneStr}

\* the first two branches of the loop body for an attribute that holds a
\* str, an int or None: TRUE when self's value is replaced by charge's
Fills(mine, theirs) ==
    \/ mine = NoneStr /\ theirs # NoneStr
    \/ /\ isinstance_str(mine) /\ strip(mine) = ""
       /\ isinstance_str(theirs) /\ strip(theirs) # ""

\* the loop body for an attribute other than disposition
Filled(mine, theirs) == IF Fills(mine, theirs) THEN theirs ELSE mine

\* the loop body for disposition_date, a date or None
FilledDate(mine, theirs) == IF mine = None /\ theirs # None THEN theirs ELSE mine

\* combine_with: the loop over offense, grade, statute, sequence,
\* disposition, disposition_date, sentences, otn.  re.search on a
\* disposition of None raises TypeError, with the attributes before
\* disposition already set.
combine_with(self, charge) ==
    LET first == [self EXCEPT !.offense = Filled(self.offense, charge.offense),
                              !.grade = Filled(self.grade, charge.grade),
                              !.statute = Filled(self.statute, charge.statute),
                              !.sequence = Filled(self.sequence, charge.sequence)]
        Rest(with_disposition) ==
            [with_disposition EXCEPT
                !.disposition_date = FilledDate(@, charge.disposition_date),
                !.otn = Filled(self.otn, charge.otn)]
    IN  IF Fills(self.disposition, charge.disposition)
        THEN [raised |-> "",
              self |-> Rest([first EXCEPT !.disposition = charge.disposition])]
        ELSE IF charge.disposition = NoneStr
        THEN [raised |-> "TypeError", self |-> first]
        ELSE IF MatchesFinal(charge.disposition)
        THEN [raised |-> "",
              self |-> Rest([first EXCEPT !.disposition = charge.disposition,
                                          !.disposition_date = charge.disposition_date])]
        ELSE [raised |-> "", self |-> Rest(first)]

\* the call self.combine_with(charge)
CombineWith ==
    /\ applied = <<>>
    /\ \E res \in {combine_with(given[1], given[2])} :
           /\ record' = res.self
           /\ raised' = res.raised
    /\ applied' = <<"combine_with">>
    /\ UNCHANGED <<remaining_record, decisions, given, summarized>>

\* two records of the charge with sequence 1, with and without grade,
\* disposition, disposition date and OTN
InitCombine ==
    \E grade1 \in {NoneStr, "", "M2"}, grade2 \in {NoneStr, "", "M1"},
       disposition1 \in {NoneStr, "", " ", "Held for Court", "Guilty"},
       disposition2 \in {NoneStr, "", "Held for Court", "Guilty Plea", "Not Guilty",
                         "Nolle Prossed"},
       date1 \in {None, <<2005, 1>>}, date2 \in {None, <<2006, 1>>},
       otn1 \in {NoneStr, "12345"}, otn2 \in {NoneStr, "54321"} :
        /\ given = <<[offense |-> "Theft", grade |-> grade1, statute |-> "18 s 3921",
                      sequence |-> "1", disposition |-> disposition1,
                      disposition_date |-> date1, sentences |-> <<>>, otn |-> otn1],
                     [offense |-> "Theft", grade |-> grade2, statute |-> "18 s 3921",
                      sequence |-> "1", disposition |-> disposition2,
                      disposition_date |-> date2, sentences |-> <<>>, otn |-> otn2]>>
        /\ record = given[1]
        /\ remaining_record = None
        /\ decisions = <<>>
        /\ applied = <<>>
        /\ raised = ""
        /\ summarized = None

SpecCombine == InitCombine /\ [][CombineWith]_vars

\* None or a string of white space
Empty(v) == v = NoneStr \/ strip(v) = ""

(***************************************************************************)
(* C20: combine_with returns; it gives an empty or null attribute of the   *)
(* receiving charge the value of the other charge, leaves every attribute  *)
(* that is not empty as it was, the disposition date too, except the       *)
(* disposition, which becomes the other charge's when that matches nolle,  *)
(* guilt, dismiss or withdraw; no attribute that was not empty is empty    *)
(* afterwards.                                                             *)
(***************************************************************************)
C20_CombineWithFillsAndKeeps ==
    applied = <<"combine_with">> =>
        LET before == given[1]
            other == given[2]
        IN  /\ raised = ""
            /\ \A f \in {"offense", "grade", "statute", "sequence", "otn"} :
                   /\ (Empty(before[f]) /\ ~Empty(other[f])) => record[f] = other[f]
                   /\ ~Empty(before[f]) => record[f] = before[f]
            /\ (before.disposition_date = None /\ other.disposition_date # None)
                  => record.disposition_date = other.disposition_date
            /\ before.disposition_date # None
                  => record.disposition_date = before.disposition_date
            /\ (Empty(before.disposition) /\ ~Empty(other.disposition))
                  => record.disposition = other.disposition
            /\ ~Empty(before.disposition)
                  => record.disposition
                       = IF ~Empty(other.disposition) /\ MatchesFinal(other.disposition)
                         THEN other.disposition ELSE before.disposition

(***************************************************************************)
(* Merging two charges in both orders.  Each call works on its own copies  *)
(* of the two charges in `given`; `decisions` collects what the calls      *)
(* returned or raised, with the index of the receiving charge.             *)
(***************************************************************************)
\* given[receiver].combine_with(given[3 - receiver]) on fresh copies
CombineWithReceiver(receiver) ==
    /\ \A i \in 1..Len(decisions) : decisions[i].receiver # receiver
    /\ \E res \in {combine_with(given[receiver], given[3 - receiver])} :
           decisions' = Append(decisions, [receiver |-> receiver,
                                           raised |-> res.raised,
                                           self |-> res.self])
    /\ applied' = Append(applied, "combine_with")
    /\ UNCHANGED <<record, remaining_record, given, raised, summarized>>

NextMerge == \E receiver \in {1, 2} : CombineWithReceiver(receiver)

SpecMerge == InitCombine /\ [][NextMerge]_vars

\* the attributes of a charge that hold a str or None
StrAttributes == {"offense", "grade", "statute", "sequence", "disposition", "otn"}

\* the value that is not null, of two values of which exactly one is null
TheNonNull(a, b, null) == IF a = null THEN b ELSE a

(***************************************************************************)
(* C21: when two charges have been merged in both orders, neither merge    *)
(* raised; an attribute that is null on exactly one of the two charges     *)
(* (the disposition and its date too) has the other charge's value in both *)
(* results; and when both dispositions are set and exactly one matches a   *)
(* final outcome, both results have the final disposition.                 *)
(***************************************************************************)
C21_MergeOrderIndependent ==
    Len(decisions) = 2 =>
        LET a == given[1]
            b == given[2]
            OneFinal == /\ a.disposition # NoneStr /\ b.disposition # NoneStr
                        /\ MatchesFinal(a.disposition) # MatchesFinal(b.disposition)
            OneNull(f) == (a[f] = NoneStr) # (b[f] = NoneStr)
            OneDate == (a.disposition_date = None) # (b.disposition_date = None)
        IN  \A i \in {1, 2} :
              /\ (OneFinal \/ OneDate \/ \E f \in StrAttributes : OneNull(f))
                    => decisions[i].raised = ""
              /\ \A f \in StrAttributes :
                     OneNull(f) => decisions[i].self[f] = TheNonNull(a[f], b[f], NoneStr)
              /\ OneDate => decisions[i].self.disposition_date
                              = TheNonNull(a.disposition_date, b.disposition_date, None)
              /\ OneFinal => decisions[i].self.disposition
                               = IF MatchesFinal(a.disposition) THEN a.disposition
                                 ELSE b.disposition

(***************************************************************************)
(* Charge.reduce_merge.  `given` is <<charges>>, the list handed to the    *)
(* call, and `record` is the list it returned.                             *)
(***************************************************************************)
MaxChargeRecords == 3

\* the condition under which reducer combines the charge ch of the
\* accumulator with charge
SameSequence(ch, charge) ==
    /\ isinstance_str(charge.sequence)
    /\ charge.sequence = ch.sequence
    /\ strip(charge.sequence) # ""

\* reducer(accumulator, charge); an exception of combine_with leaves the
\* reduction
reducer(accumulator, charge) ==
    IF accumulator.raised # "" THEN accumulator
    ELSE IF Len(accumulator.charges) = 0
    THEN [raised |-> "", charges |-> <<charge>>]
    ELSE LET chs == accumulator.charges
             Combined(ch) == IF SameSequence(ch, charge)
                             THEN combine_with(ch, charge)
                             ELSE [raised |-> "", self |-> ch]
             is_new == \A i \in 1..Len(chs) : ~SameSequence(chs[i], charge)
         IN  IF \E i \in 1..Len(chs) : Combined(chs[i]).raised # ""
             THEN [raised |-> "TypeError", charges |-> chs]
             ELSE [raised |-> "",
                   charges |-> [i \in 1..Len(chs) |-> Combined(chs[i]).self]
                                 \o (IF is_new THEN <<charge>> ELSE <<>>)]

\* functools.reduce(reducer, charges, [])
reduce_merge(charges) ==
    FoldLeft(reducer, [raised |-> "", charges |-> <<>>], charges)

\* the call Charge.reduce_merge(charges)
ReduceMerge ==
    /\ applied = <<>>
    /\ \E res \in {reduce_merge(given[1])} :
           /\ record' = res.charges
           /\ raised' = res.raised
    /\ applied' = <<"reduce_merge">>
    /\ UNCHANGED <<remaining_record, decisions, given, summarized>>

\* the records of charges found in a docket: a sequence number that is a
\* str, an int, empty or None, and a disposition or None
ChargeRecords ==
    {[offense |-> "Theft", grade |-> "M2", statute |-> "18 s 3921",
      sequence |-> sequence, disposition |-> disposition,
      disposition_date |-> None, sentences |-> <<>>, otn |-> NoneStr] :
        sequence \in {"1", "2", "int 1", "int 2", "", NoneStr},
        disposition \in {NoneStr, "Held for Court", "Guilty Plea"}}

InitReduce ==
    \E charges \in SeqsUpTo(ChargeRecords, MaxChargeRecords) :
        /\ given = <<charges>>
        /\ record = None
        /\ remaining_record = None
        /\ decisions = <<>>
        /\ applied = <<>>
        /\ raised = ""
        /\ summarized = None

SpecReduce == InitReduce /\ [][ReduceMerge]_vars

\* the sequence numbers of a list of charges
SequencesOf(charges) == {charges[i].sequence : i \in 1..Len(charges)}

(***************************************************************************)
(* C22: reduce_merge returns a list in which no two charges have the same  *)
(* sequence number, and the list is as long as the number of distinct      *)
(* sequence numbers of the charges it was given.                           *)
(***************************************************************************)
C22_ReduceMergeOnePerSequence ==
    applied = <<"reduce_merge">> =>
        /\ raised = ""
        /\ \A i, j \in 1..Len(record) :
               record[i].sequence = record[j].sequence => i = j
        /\ Len(record) = Cardinality(SequencesOf(given[1]))

(***************************************************************************)
(* Calls of the functions of crecord.py on a record.  `record` is the      *)
(* record given; `decisions` collects, for every call made, the name of    *)
(* the function, the case and the charge given to it (0 when it takes      *)
(* none), the value returned and the exception raised.                     *)
(***************************************************************************)
Called(name, case, charge, value, exception) ==
    [name |-> name, case |-> case, charge |-> charge, value |-> value,
     raised |-> exception]

\* crecord.years_since_last_arrested_or_prosecuted()
CallYearsSinceLastArrestedOrProsecuted ==
    /\ applied = <<>>
    /\ decisions' = Append(decisions,
                           Called("years_since_last_arrested_or_prosecuted", 0, 0,
                                  years_since_last_arrested_or_prosecuted(record), ""))
    /\ applied' = <<"years_since_last_arrested_or_prosecuted">>
    /\ UNCHANGED <<record, remaining_record, given, raised, summarized>>

\* records of at most MaxCases cases that are closed, active or without a
\* status, with an arrest date or none and a disposition date or none, one
\* of them in the future
InitLastContact ==
    \E n \in 0..MaxCases :
        \E status \in [1..n -> {"Closed", "Active - Awaiting Trial", NoneStr}],
           arrest_date \in [1..n -> {None, <<2015, 3>>, <<2019, 3>>}],
           disposition_date \in [1..n -> {None, <<2016, 1>>, <<2022, 1>>}] :
            Analysis(CRecord(Person(<<1980, 1>>, None),
                             [i \in 1..n |->
                                 [Case(DocketNames[i], status[i], arrest_date[i],
                                       disposition_date[i], None, None)
                                  EXCEPT !.charges = <<>>]]))

SpecLastContact == InitLastContact /\ [][CallYearsSinceLastArrestedOrProsecuted]_vars

\* the date d moved by y years
YearsLater(d, y) == <<d[1] + y, d[2]>>

\* y is the number of whole calendar years between the dates d and t,
\* counted below zero when d is after t
IsWholeYearsBetween(y, d, t) ==
    IF DateLT(t, d)
    THEN /\ y <= 0
         /\ ~DateLT(d, YearsLater(t, 0 - y))
         /\ DateLT(d, YearsLater(t, 1 - y))
    ELSE /\ y >= 0
         /\ ~DateLT(t, YearsLater(d, y))
         /\ DateLT(t, YearsLater(d, y + 1))

\* the later of the arrest date and the disposition date of a case, the one
\* it has when it has one only, and year 1 when it has none
LaterOfArrestAndDisposition(case) ==
    IF case.arrest_date = None /\ case.disposition_date = None THEN <<1, 1>>
    ELSE IF case.arrest_date = None THEN case.disposition_date
    ELSE IF case.disposition_date = None THEN case.arrest_date
    ELSE IF DateLT(case.arrest_date, case.disposition_date) THEN case.disposition_date
    ELSE case.arrest_date

CallYearsSinceFinalRelease ==
    /\ applied = <<>>
    /\ decisions' = Append(decisions,
                           IF years_since_final_release_raises(record)
                           THEN Called("years_since_final_release", 0, 0, None,
                                       "TypeError")
                           ELSE Called("years_since_final_release", 0, 0,
                                       years_since_final_release(record), ""))
    /\ applied' = <<"years_since_final_release">>
    /\ UNCHANGED <<record, remaining_record, given, raised, summarized>>

SpecFinalRelease == InitOver70 /\ [][CallYearsSinceFinalRelease]_vars

\* some sentence of some charge of the case is of the kind told by Is
SomeSentence(case, Is(_)) ==
    \E k \in 1..Len(case.charges) :
        \E n \in 1..Len(case.charges[k].sentences) : Is(case.charges[k].sentences[n])

IsConfinement(sentence) == sentence.sentence_type = "Confinement"

LacksDateOrLength(sentence) == sentence.sentence_date = None \/ sentence.max_time = None

(***************************************************************************)
(* C24: years_since_final_release raises nothing; it returns infinity when *)
(* no case of the record has a sentence of confinement, and 0 when a case  *)
(* with a sentence of confinement has a sentence without a sentence date   *)
(* or without a maximum length.                                            *)
(***************************************************************************)
C24_YearsSinceFinalReleaseNeverRaises ==
    applied = <<"years_since_final_release">> =>
        /\ decisions[1].raised = ""
        /\ (\A i \in 1..Len(record.cases) : ~SomeSentence(record.cases[i], IsConfinement))
              => decisions[1].value = Inf
        /\ (\E i \in 1..Len(record.cases) :
               /\ SomeSentence(record.cases[i], IsConfinement)
               /\ SomeSentence(record.cases[i], LacksDateOrLength))
              => decisions[1].value = 0

(***************************************************************************)
(* Objects handed over the boundary of a rule function.  A reference is    *)
(* <<kind, origin, i, part>>: an object of the record the rule was given   *)
(* ("given") or one the rule made ("new"), for the i-th case of the given  *)
(* record (0 for the record itself).  A case is told by the references to  *)
(* its Case object and to its lists charges and related_cases.             *)
(***************************************************************************)
GivenRecord == <<"CRecord", "given", 0, "">>

NewRecord == <<"CRecord", "new", 0, "">>

\* the i-th Case of the given record, with its own lists
GivenCase(i) ==
    [case |-> <<"Case", "given", i, "">>,
     charges |-> <<"charges", "given", i, "">>,
     related_cases |-> <<"related_cases", "given", i, "">>]

\* Case.partialcopy of the i-th case: a new Case with charges=[] and
\* related_cases=self.related_cases
PartialCopy(i, part) ==
    [case |-> <<"Case", "new", i, part>>,
     charges |-> <<"charges", "new", i, part>>,
     related_cases |-> GivenCase(i).related_cases]

\* the place in the given record of the case with the docket number
IndexOf(crecord, docket_number) ==
    CHOOSE i \in 1..Len(crecord.cases) : crecord.cases[i].docket_number = docket_number

\* the objects a rule function returned: the remaining record, its cases
\* and the cases placed in the Decision, for the values res it returned
\* when called with crecord
ReturnedReferences(ruledef, crecord, res) ==
    LET Given(cases) ==
            [k \in 1..Len(cases) |-> GivenCase(IndexOf(crecord, cases[k].docket_number))]
        Copies(cases, part) ==
            [k \in 1..Len(cases) |->
                PartialCopy(IndexOf(crecord, cases[k].docket_number), part)]
    IN  CASE ruledef = "filter_traffic_cases" ->
               [record |-> NewRecord,
                cases |-> Given(res.remaining.cases),
                decision |-> Given(res.decision.value)]
          [] ruledef \in {"expunge_over_70", "expunge_deceased"} ->
               IF all(res.decision.reasoning)
               THEN [record |-> NewRecord,
                     cases |-> <<>>,
                     decision |-> Given(PetitionCases(res.decision.value))]
               ELSE [record |-> GivenRecord,
                     cases |-> Given(crecord.cases),
                     decision |-> <<>>]
          [] ruledef \in PartitionRules ->
               [record |-> NewRecord,
                cases |-> Copies(res.remaining.cases, "remaining"),
                decision |-> Copies(PetitionCases(res.decision.value), "petition")]
          [] ruledef = "autosealing_eligibility" ->
               [record |-> GivenRecord,
                cases |-> Given(crecord.cases),
                decision |-> Copies(res.decision.value.eligible, "eligible")
                               \o Copies(res.decision.value.ineligible, "ineligible")]

\* the objects returned by the last rule of the Analysis
LastReturned ==
    ReturnedReferences(LastRule, LastGiven,
                       [remaining |-> remaining_record, decision |-> LastDecision])

(***************************************************************************)
(* C25: the remaining record a rule returned is not the record object the  *)
(* rule was given, and no case of it is a Case object, or has a charges or *)
(* related_cases list, that is also in the given record or in a case       *)
(* placed in the rule's Decision.                                          *)
(***************************************************************************)
C25_NoAliasingAcrossRules ==
    Len(applied) > 0 =>
        LET Others(returned) ==
                [k \in 1..Len(LastGiven.cases) |-> GivenCase(k)] \o returned.decision
            Apart(returned) ==
                /\ returned.record # GivenRecord
                /\ \A k \in 1..Len(returned.cases) :
                     \A n \in 1..Len(Others(returned)) :
                        /\ returned.cases[k].case # Others(returned)[n].case
                        /\ returned.cases[k].charges # Others(returned)[n].charges
                        /\ returned.cases[k].related_cases
                              # Others(returned)[n].related_cases
        IN  Apart(LastReturned)

(***************************************************************************)
(* One rule and the summary of its Decision.                               *)
(***************************************************************************)
NextSummaryOnce ==
    \/ \E ruledef \in RuleNames : summarized = None /\ Len(applied) < 1 /\ rule(ruledef)
    \/ \E iterable \in BOOLEAN : summarized = None /\ summarize(iterable)

SpecSummaryOnce == InitPartition /\ [][NextSummaryOnce]_vars

(***************************************************************************)
(* C26: in the summary of an Analysis that applied                         *)
(* expunge_summary_convictions, every charge that is a summary conviction, *)
(* when the person has not been arrest free for five years, has as its     *)
(* next step the text that the charge cannot be expunged yet, followed by  *)
(* the reasoning of the arrest-free Decision.                              *)
(***************************************************************************)
C26_SummaryConvictionWaitsForFiveYears ==
    (summarized # None /\ applied = <<"expunge_summary_convictions">>) =>
        \A i \in 1..Len(record.cases) : \A k \in 1..Len(record.cases[i].charges) :
            ( /\ record.cases[i].charges[k].grade \in {"S", "S "}
              /\ record.cases[i].charges[k].disposition \in {"Guilty", "Guilty Plea"}
              /\ ~Truthy(decisions[1].reasoning[1].value) )
              => /\ summarized.raised = ""
                 /\ summarized.cases[record.cases[i].docket_number]
                        .charges[record.cases[i].charges[k].sequence].next_steps
                      = <<SummaryNotYetStep, ArrestFreeReasoning>>

(***************************************************************************)
(* seal_convictions and the summary of its Decision.                       *)
(***************************************************************************)
SpecSealingSummary == InitSealing /\ [][NextSummaryOnce]_vars

\* the next steps of the branches for a charge whose case has no fines left
WaitStep == "Sealing this charge immeditately may require a pardon first."
NotEligibleStep == "This charge does not appear eligible for sealing."

(***************************************************************************)
(* C27: in the summary of an Analysis that applied seal_convictions, a     *)
(* charge marked "Not sealable" in a case whose fines are all paid has     *)
(* exactly one next step: the text about waiting when the Decision about   *)
(* the years since the last conviction is the only negative Decision about *)
(* the full record, and the text that the charge does not appear eligible  *)
(* otherwise; and every charge marked "Not sealable" has one next step,    *)
(* not the same text twice.                                                *)
(***************************************************************************)
C27_NotSealableChargeHasOneNextStep ==
    (summarized # None /\ applied = <<"seal_convictions">>) =>
        LET full_record == decisions[1].reasoning[1].reasoning
            OnlyWaiting == ~Truthy(full_record[1].value) /\ Truthy(full_record[2].value)
            NextSteps(case_decision, charge_decision) ==
                summarized.cases[case_decision.name[2]]
                    .charges[charge_decision.name[2]].next_steps
        IN  \A i \in 2..Len(decisions[1].reasoning) :
              \A k \in 1..Len(decisions[1].reasoning[i].reasoning) :
                 LET case_decision == decisions[1].reasoning[i]
                     charge_decision == decisions[1].reasoning[i].reasoning[k]
                 IN  charge_decision.value = "Not sealable" =>
                       /\ summarized.raised = ""
                       /\ Len(NextSteps(case_decision, charge_decision)) = 1
                       /\ Truthy(charge_decision.reasoning[1].value) =>
                            NextSteps(case_decision, charge_decision)
                              = <<IF OnlyWaiting THEN WaitStep ELSE NotEligibleStep>>

(***************************************************************************)
(* years_between_convictions, called for a charge of a case of the record. *)
(***************************************************************************)
\* crecord.years_between_convictions(case, charge) for the k-th charge of
\* the i-th case
CallYearsBetweenConvictions(i, k) ==
    /\ applied = <<>>
    /\ i \in 1..Len(record.cases)
    /\ k \in 1..Len(record.cases[i].charges)
    /\ decisions' =
          Append(decisions,
                 IF years_between_convictions_raises(record, record.cases[i],
                                                     record.cases[i].charges[k])
                 THEN Called("years_between_convictions", i, k, None, "TypeError")
                 ELSE Called("years_between_convictions", i, k,
                             years_between_convictions(record, record.cases[i],
                                                       record.cases[i].charges[k]),
                             ""))
    /\ applied' = <<"years_between_convictions">>
    /\ UNCHANGED <<record, remaining_record, given, raised, summarized>>

\* records of cases disposed of in 2006, 2012 and 2018, with and without
\* convictions, the charges with a disposition date of their own or none
InitBetween ==
    AnalysisOf({Person(<<1980, 1>>, None)},
               {Case("CP", "Closed", <<2005, 1>>, <<2006, 1>>, None, None),
                Case("CP", "Closed", <<2012, 1>>, <<2012, 2>>, None, None),
                Case("CP", "Closed", <<2018, 1>>, <<2018, 3>>, None, None)},
               <<Charge("M2", "18 s 3921", "Guilty", None, <<>>),
                 Charge("M2", "18 s 3921", "Guilty Plea", <<2012, 1>>, <<>>),
                 Charge("M2", "18 s 3921", "Nolle Prossed", None, <<>>)>>)

NextBetween ==
    \E i \in 1..MaxCases, k \in 1..MaxCharges : CallYearsBetweenConvictions(i, k)

SpecBetween == InitBetween /\ [][NextBetween]_vars

(***************************************************************************)
(* C28: years_between_convictions, for a charge of a case of the record,   *)
(* returns the whole calendar years from the disposition date of the       *)
(* charge (of its case when the charge has none) to the earliest last      *)
(* action, later than that date, of a case with a conviction, and to today *)
(* when there is no such case; the number is not negative.                 *)
(***************************************************************************)
C28_YearsToTheNextConviction ==
    applied = <<"years_between_convictions">> =>
        LET case == record.cases[decisions[1].case]
            charge == record.cases[decisions[1].case].charges[decisions[1].charge]
            start == IF charge.disposition_date # None THEN charge.disposition_date
                     ELSE case.disposition_date
            later == {LaterOfArrestAndDisposition(record.cases[j]) :
                        j \in {n \in 1..Len(record.cases) :
                                 /\ \E q \in 1..Len(record.cases[n].charges) :
                                       record.cases[n].charges[q].disposition
                                          \in {"Guilty", "Guilty Plea"}
                                 /\ DateLT(start,
                                           LaterOfArrestAndDisposition(record.cases[n]))}}
        IN  /\ decisions[1].raised = ""
            /\ decisions[1].value >= 0
            /\ IF later = {}
               THEN IsWholeYearsBetween(decisions[1].value, start, Today)
               ELSE \E next \in later :
                      /\ \A d \in later : ~DateLT(d, next)
                      /\ IsWholeYearsBetween(decisions[1].value, start, next)

\* no element of the list occurs twice
NoDuplicates(list) == \A i, j \in 1..Len(list) : list[i] = list[j] => i = j

C30_SummaryExpungementNeedsArrestFreeOriginal ==
    \A i, j \in 1..Len(applied) :
        ( /\ i < j
          /\ applied[i] = "expunge_nonconvictions"
          /\ applied[j] = "expunge_summary_convictions"
          /\ decisions[j].value # <<>> )
          => years_since_last_arrested_or_prosecuted(record) > 5

====
